---------------------------- MODULE Spec2Model ----------------------------
(***************************************************************************)
(* FrienGO: the voting engine (src/voting.py), its SQLite store            *)
(* (src/database.py) and the data classes (src/models.py).                 *)
(*                                                                         *)
(* The store is modelled table by table.  A table with an AUTOINCREMENT    *)
(* key whose rows are never deleted (votings, vote_options,                *)
(* ping_schedules) is a sequence whose index is the row id.  The votes     *)
(* table loses rows, so it is the sequence of the remaining rows in rowid  *)
(* order, which is the order "SELECT * FROM votes WHERE voting_id = ?"     *)
(* returns them in; the vote_id itself is read by no operation.            *)
(*                                                                         *)
(* A call is one step (the engine is synchronous: no await inside it).     *)
(* Its outcome is left in ret until the caller takes it (Return).          *)
(*                                                                         *)
(* The reminder scheduler (src/scheduler.py) is one asyncio task; sched is *)
(* the PingScheduler object together with the place of the task in start() *)
(* and _check_and_send_pings(); log is a record of the pings that were     *)
(* sent without their flag being set, kept where a claim speaks of them.   *)
(***************************************************************************)
EXTENDS Integers, Sequences, FiniteSets, TLC

VARIABLES
    votings,         \* table votings: voting_id -> [chat_id, status, title]
    vote_options,    \* table vote_options: option_id -> [voting_id, has_date]
    votes,           \* table votes, rowid order: [user_id, option_id, voting_id]
    ping_schedules,  \* table ping_schedules: schedule_id -> [voting_id, ping_at, is_sent]
    users,           \* table users: the registered user ids
    now,             \* datetime.now(), in hours
    ret,             \* the outcome of the call just made, NoCall when taken
    sched,           \* the PingScheduler and the place of its task
    log,             \* the pings sent whose flag is not set: <<schedule_id, ping_type>>
    calls,           \* the vote_for_option call of each user, when calls overlap
    presses          \* the handler coroutines of the bot under way, by handler

store == <<votings, vote_options, votes, ping_schedules, users>>
vars == <<votings, vote_options, votes, ping_schedules, users, now, ret,
          sched, log, calls, presses>>

---------------------------------------------------------------------------
(* Bounds of the model. *)
MaxRows == 6           \* rows of the store, over all its tables

MaxSchedules == 2      \* ping_schedules rows while the scheduler runs
MaxDays == 3           \* days that pass while the scheduler runs
ConcOptions == 2       \* options of a voting when calls overlap
MaxStartDate == 20     \* start dates of generate_weekend_dates: days 0..MaxStartDate
MaxWeeks == 4          \* its lookaheads: 0..MaxWeeks weeks

Chats == {1, 2}
Users == {1, 2}

(* Program constants. *)
WEEKS == 4             \* generate_weekend_dates(weeks = 4)
TOP_N == 3             \* sorted_options[:3]
PING_24H == 24
PING_48H == 48
PING_72H == 72
SATURDAY == 5          \* date.weekday() of a Saturday
DAYS_PER_WEEK == 7     \* timedelta(weeks = 1), in days

\* The message strings stand for the Russian texts of voting.py.
ACTIVE == "active"
CLOSED == "closed"

\* The title create_voting gives a voting when it is given none, and the
\* titles of the votings stored directly, one for each chat.
DEFAULT_TITLE == "When do we meet?"
title_of(chat_id) == IF chat_id = 1 THEN "Test" ELSE "Test 2"

MSG_NOT_FOUND == "voting not found"
MSG_CLOSED == "voting already closed"
MSG_ALREADY_VOTED == "already voted for this option"
MSG_VOTE_OK == "vote accepted"
MSG_NOT_VOTED == "not voted for this option"
MSG_UNVOTE_OK == "vote removed"
MSG_UNVOTE_ERR == "error removing vote"

\* Likewise for the texts that send_manual_ping returns.
MSG_NO_CALLBACK == "ping callback not set"
MSG_ALL_VOTED == "everyone has voted"
MSG_PING_SENT == "ping sent"
MSG_PING_FAILED == "error sending ping"

\* The text _get_ping_message returns, after the line that tells the hours.
MSG_REMINDER == "do not forget to vote"

---------------------------------------------------------------------------
(* Sequence helpers. *)
RECURSIVE SeqToSet(_)
SeqToSet(s) == IF s = <<>> THEN {} ELSE {Head(s)} \cup SeqToSet(Tail(s))

Min(a, b) == IF a < b THEN a ELSE b

---------------------------------------------------------------------------
(* models.py *)

\* The fields of the Voting dataclass: the keywords Voting(...) accepts.
VotingFields ==
    {"voting_id", "chat_id", "message_id", "title", "created_at", "status",
     "options", "votes"}

\* The keywords VotingService.create_voting passes to Voting(...).
CreateVotingKwargs ==
    {"voting_id", "chat_id", "message_id", "message_thread_id", "title",
     "created_at", "status"}

\* A dataclass __init__ raises TypeError on a keyword that is no field.
VotingInitAccepts(kwargs) == kwargs \subseteq VotingFields

\* Faulty variant of has_user_voted_for_option: user and option swapped in
\* the comparison.
has_user_voted_swapped(vs, user_id, option_id) ==
    \E i \in 1..Len(vs) : vs[i].user_id = option_id /\ vs[i].option_id = user_id

\* Faulty variant of has_user_voted_for_option: the option is not compared.
has_user_voted_any_option(vs, user_id, option_id) ==
    \E i \in 1..Len(vs) : vs[i].user_id = user_id

\* Voting.has_user_voted_for_option, over the votes of one voting.
has_user_voted_for_option(vs, user_id, option_id) ==
    \E i \in 1..Len(vs) : vs[i].user_id = user_id /\ vs[i].option_id = option_id

\* Voting.get_votes_for_option
get_votes_for_option(vs, option_id) ==
    SelectSeq(vs, LAMBDA v : v.option_id = option_id)

\* Faulty variant of get_voted_users: one entry per Vote, not per user.
get_voted_users_per_vote(vs) == 1..Len(vs)

\* Voting.get_voted_users
get_voted_users(vs) == {vs[i].user_id : i \in 1..Len(vs)}

---------------------------------------------------------------------------
(* database.py *)

\* get_voting: None (FALSE here) when the votings row is missing.
voting_exists(voting_id) == voting_id \in 1..Len(votings)

\* get_voting: the votes rows of the voting, in rowid order.
voting_votes(vts, voting_id) ==
    SelectSeq(vts, LAMBDA v : v.voting_id = voting_id)

\* get_voting: the option ids of the voting, in rowid order.
voting_options(voting_id) ==
    SelectSeq([i \in 1..Len(vote_options) |-> i],
              LAMBDA o : vote_options[o].voting_id = voting_id)

\* Faulty variant of get_active_voting_by_chat: no chat_id in the WHERE.
get_active_voting_by_chat_any(chat_id) ==
    LET act == {v \in 1..Len(votings) : votings[v].status = ACTIVE}
    IN IF act = {} THEN 0 ELSE CHOOSE v \in act : \A w \in act : w <= v

\* Faulty variant of get_active_voting_by_chat: WHERE status = 'closed'.
get_active_voting_by_chat_closed(chat_id) ==
    LET act == {v \in 1..Len(votings) :
                    votings[v].chat_id = chat_id /\ votings[v].status = CLOSED}
    IN IF act = {} THEN 0 ELSE CHOOSE v \in act : \A w \in act : w <= v

\* get_active_voting_by_chat: the voting_id, 0 for None.  created_at grows
\* with the row id, so ORDER BY created_at DESC LIMIT 1 is the greatest id.
get_active_voting_by_chat(chat_id) ==
    LET act == {v \in 1..Len(votings) :
                    votings[v].chat_id = chat_id /\ votings[v].status = ACTIVE}
    IN IF act = {} THEN 0 ELSE CHOOSE v \in act : \A w \in act : w <= v

\* Faulty variant of add_vote: the new vote takes the place of the votes
\* the user has in the voting (one option for each user).
add_vote_single_select(vts, user_id, option_id, voting_id) ==
    Append(SelectSeq(vts, LAMBDA v : ~(v.user_id = user_id
                                       /\ v.voting_id = voting_id)),
           [user_id |-> user_id, option_id |-> option_id,
            voting_id |-> voting_id])

\* add_vote: INSERT INTO votes
add_vote(vts, user_id, option_id, voting_id) ==
    Append(vts, [user_id |-> user_id, option_id |-> option_id,
                 voting_id |-> voting_id])

\* Faulty variant of remove_vote: DELETE ... WHERE user_id, voting_id.
remove_vote_any_option(vts, user_id, option_id, voting_id) ==
    SelectSeq(vts, LAMBDA v : ~(v.user_id = user_id /\ v.voting_id = voting_id))

\* remove_vote: DELETE FROM votes WHERE user_id, option_id, voting_id
remove_vote(vts, user_id, option_id, voting_id) ==
    SelectSeq(vts, LAMBDA v : ~(v.user_id = user_id /\ v.option_id = option_id
                                /\ v.voting_id = voting_id))

\* remove_vote: cursor.rowcount > 0
remove_vote_rowcount(vts, user_id, option_id, voting_id) ==
    Len(vts) - Len(remove_vote(vts, user_id, option_id, voting_id))

---------------------------------------------------------------------------
(* The outcome of a call. *)

NoStats ==
    [title |-> "", total_users |-> 0, voted_users |-> 0, options |-> <<>>]

\* send_manual_ping not called: its arguments (callback, non_voted_users,
\* whether send_message sends) and what it comes to.
NoManualPing ==
    [callback |-> "None", non_voted_users |-> <<>>, sent |-> FALSE,
     msg |-> "", mentions |-> <<>>, callback_calls |-> 0, count |-> 0,
     error |-> "", ping_type |-> 0]

NoCall ==
    [op |-> "none", chat_id |-> 0, user_id |-> 0, option_id |-> 0,
     voting_id |-> 0, exc |-> "", ok |-> FALSE, msg |-> "",
     stats |-> NoStats, top_3 |-> <<>>, all_options |-> <<>>,
     all_chat_members |-> <<>>, non_voted |-> <<>>,
     start_date |-> 0, weeks |-> 0, weekends |-> <<>>,
     ping |-> NoManualPing]

Outcome(op, chat_id, user_id, option_id, voting_id) ==
    [NoCall EXCEPT !.op = op, !.chat_id = chat_id, !.user_id = user_id,
                   !.option_id = option_id, !.voting_id = voting_id]

---------------------------------------------------------------------------
(* voting.py: the read-only computations. *)

\* get_voting_stats, lines 159-167: the entry of one option.
option_stats(vs, option_id) ==
    LET votes_for_option == get_votes_for_option(vs, option_id)
    IN [option_id |-> option_id,
        votes_count |-> Len(votes_for_option),
        voters |-> [i \in 1..Len(votes_for_option) |-> votes_for_option[i].user_id]]

\* get_voting_stats of an existing voting, read from the votes table vts.
get_voting_stats(vts, voting_id) ==
    LET vs == voting_votes(vts, voting_id)
        opts == voting_options(voting_id)
    IN [title |-> votings[voting_id].title,
        total_users |-> Cardinality(users),
        voted_users |-> Cardinality(get_voted_users(vs)),
        options |-> [i \in 1..Len(opts) |-> option_stats(vs, opts[i])]]

\* Faulty variant of the sort: an entry goes ahead of the entries of its own
\* count, so ties come out in reverse.
RECURSIVE insert_by_votes_desc_unstable(_, _)
insert_by_votes_desc_unstable(s, x) ==
    IF s = <<>> THEN <<x>>
    ELSE IF Head(s).votes_count > x.votes_count
         THEN <<Head(s)>> \o insert_by_votes_desc_unstable(Tail(s), x)
         ELSE <<x>> \o s

\* sorted(..., key = votes_count, reverse = True): Python's sort is stable,
\* also under reverse, so an entry goes behind every entry of a count that
\* is greater or equal.
RECURSIVE insert_by_votes_desc(_, _)
insert_by_votes_desc(s, x) ==
    IF s = <<>> THEN <<x>>
    ELSE IF Head(s).votes_count >= x.votes_count
         THEN <<Head(s)>> \o insert_by_votes_desc(Tail(s), x)
         ELSE <<x>> \o s

RECURSIVE sort_from(_, _)
sort_from(acc, rest) ==
    IF rest = <<>> THEN acc
    ELSE sort_from(insert_by_votes_desc(acc, Head(rest)), Tail(rest))

sorted_by_votes_desc(options) == sort_from(<<>>, options)

\* sorted_options[:3]
top_slice(s) == SubSeq(s, 1, Min(TOP_N, Len(s)))

\* Faulty variant of resolved_voters: every voter is listed, resolved or not.
resolved_voters_all(voters) == voters

\* get_detailed_results, lines 246-252: the voters db.get_user resolves.
resolved_voters(voters) == SelectSeq(voters, LAMBDA u : u \in users)

get_detailed_results(vts, voting_id) ==
    LET stats == get_voting_stats(vts, voting_id)
    IN [stats EXCEPT !.options =
            [i \in 1..Len(stats.options) |->
                [stats.options[i] EXCEPT !.voters = resolved_voters(@)]]]

---------------------------------------------------------------------------
(* The inputs of the calls: the voting ids of the store and one that is     *)
(* missing; the option ids of the store, of whichever voting (id 1 when    *)
(* there is none yet).                                                     *)
VotingIdInputs == 1..(Len(votings) + 1)

\* The chat members a caller hands to get_non_voted_users: lists of
\* users, one of them (3) a member who never votes.
MemberLists == {<<>>, <<2, 3>>, <<1, 2, 3>>, <<3, 2, 1>>}
OptionIdInputs == 1..(IF vote_options = <<>> THEN 1 ELSE Len(vote_options))

---------------------------------------------------------------------------
\* What the latest await of the callback came to: no ping yet.
NoPing ==
    [schedule_id |-> 0, ping_type |-> 0, sent |-> FALSE, raised |-> FALSE,
     marked |-> FALSE]

\* PingScheduler.__init__, and a task that is not created yet.  The place
\* of the task, pc: "off", "created" (asyncio.create_task), "send" (awaits
\* the callback), "sleep" (sleep(300)), "backoff" (sleep(60)), "done".
\* cycle tells the calls of _check_and_send_pings apart: their number,
\* modulo 2.  chat_id, voting_id and status are those of the local voting
\* (line 53).  early_stop records that stop was called after the task was
\* created and before its first step (the scheduler keeps no such record).
NewScheduler ==
    [is_running |-> FALSE, ping_callback |-> "None", pc |-> "off",
     current_time |-> 0, pending_schedules |-> <<>>,
     schedule_id |-> 0, chat_id |-> 0, voting_id |-> 0, status |-> "",
     ping_types |-> <<>>, last |-> NoPing, error |-> "", cycle |-> 0,
     early_stop |-> FALSE]

\* No vote_for_option under way for a user.  A call under way: its
\* arguments, the Voting that get_voting returned (voting: whether there is
\* one, its status, its votes), and the place of the call, pc: "idle",
\* "add_vote" (before db.add_vote), "done" (returned).
NoVoteCall ==
    [pc |-> "idle", option_id |-> 0, voting_id |-> 0,
     voting |-> [found |-> FALSE, status |-> "", votes |-> <<>>],
     ok |-> FALSE, msg |-> ""]

\* The coroutines of handle_callback and of close_voting_command that may
\* be under way at a time.
Handlers == {1, 2}

\* No handle_callback under way in a handler.  One under way: the user and
\* the callback data, the engine call it made (action: "vote", "unvote",
\* "" for none) with what the call returned, and its place pc: "idle",
\* "answer" (awaits query.answer(), line 350), "reply" (awaits the edit of
\* the message, the notification or the alert, lines 386-400).  A
\* close_voting_command under way: action "close", the voting it read, and
\* its place: "unpin" (awaits unpin_chat_message, line 277), "reply".
NoPress ==
    [pc |-> "idle", user_id |-> 0, option_id |-> 0, voting_id |-> 0,
     action |-> "", ok |-> FALSE, msg |-> ""]

Init ==
    /\ votings = <<>>
    /\ vote_options = <<>>
    /\ votes = <<>>
    /\ ping_schedules = <<>>
    /\ users = {}
    /\ now = 0
    /\ ret = NoCall
    /\ sched = NewScheduler
    /\ log = {}
    /\ calls = [u \in Users |-> NoVoteCall]
    /\ presses = [h \in Handlers |-> NoPress]

\* The caller takes the outcome of the call.
Return ==
    /\ ret # NoCall
    /\ ret' = NoCall
    /\ UNCHANGED <<votings, vote_options, votes, ping_schedules, users, now>>

(* database.py, called on the store directly as tests/test_database.py does. *)

\* DatabaseManager.save_user: INSERT OR REPLACE
SaveUser(user_id) ==
    /\ ret = NoCall
    /\ users' = users \cup {user_id}
    /\ UNCHANGED <<votings, vote_options, votes, ping_schedules, now, ret>>

\* DatabaseManager.create_voting for a Voting of n options, status ACTIVE
\* (the dataclass default).
DbCreateVoting(chat_id, n) ==
    /\ ret = NoCall
    /\ votings' = Append(votings, [chat_id |-> chat_id, status |-> ACTIVE,
                                   title |-> title_of(chat_id)])
    /\ vote_options' = vote_options \o
                       [i \in 1..n |-> [voting_id |-> Len(votings) + 1]]
    /\ UNCHANGED <<votes, ping_schedules, users, now, ret>>

\* The PingSchedule of VotingService._create_ping_schedule.
new_ping_schedule(voting_id) ==
    [voting_id |-> voting_id,
     ping_at |-> <<now + PING_24H, now + PING_48H, now + PING_72H>>,
     is_sent |-> <<FALSE, FALSE, FALSE>>]

\* DatabaseManager.create_ping_schedule
DbCreatePingSchedule(voting_id) ==
    /\ ret = NoCall
    /\ ping_schedules' = Append(ping_schedules, new_ping_schedule(voting_id))
    /\ UNCHANGED <<votings, vote_options, votes, users, now, ret>>

(* voting.py: the engine. *)

\* Faulty variant of create_voting: no look for an ACTIVE voting of the
\* chat, and a Voting that takes the keywords it is given.
CreateVoting_unguarded(chat_id) ==
    LET out == Outcome("create_voting", chat_id, 0, 0, 0)
    IN
    /\ ret = NoCall
    /\ votings' = Append(votings, [chat_id |-> chat_id, status |-> ACTIVE,
                                   title |-> DEFAULT_TITLE])
    /\ vote_options' = vote_options \o
           [i \in 1..(2 * WEEKS + 1) |-> [voting_id |-> Len(votings) + 1]]
    /\ ping_schedules' =
           Append(ping_schedules, new_ping_schedule(Len(votings) + 1))
    /\ ret' = [out EXCEPT !.ok = TRUE, !.voting_id = Len(votings) + 1]
    /\ UNCHANGED <<votes, users, now>>

\* date.weekday(): 0 for Monday.  A date is its number of days from a
\* Monday, day 0.
weekday(d) == d % DAYS_PER_WEEK

\* range(weeks), each week giving its Saturday and Sunday.
RECURSIVE weekends_from(_, _, _)
weekends_from(saturday, week, weeks) ==
    IF week >= weeks THEN <<>>
    ELSE LET current_saturday == saturday + DAYS_PER_WEEK * week
             current_sunday == current_saturday + 1
         IN <<current_saturday, current_sunday>>
            \o weekends_from(saturday, week + 1, weeks)

\* Faulty variant of generate_weekend_dates: the days until Sunday.
generate_weekend_dates_sunday(start_date, weeks) ==
    LET days_until_saturday ==
            (SATURDAY + 1 - weekday(start_date)) % DAYS_PER_WEEK
    IN weekends_from(start_date + days_until_saturday, 0, weeks)

\* VotingService.generate_weekend_dates
generate_weekend_dates(start_date, weeks) ==
    LET days_until_saturday == (SATURDAY - weekday(start_date)) % DAYS_PER_WEEK
        saturday == IF days_until_saturday = 0 /\ weekday(start_date) = SATURDAY
                    THEN start_date
                    ELSE start_date + days_until_saturday
    IN weekends_from(saturday, 0, weeks)

\* A call of generate_weekend_dates(start_date, weeks).
GenerateWeekendDates(start_date, weeks) ==
    /\ ret = NoCall
    /\ ret' = [Outcome("generate_weekend_dates", 0, 0, 0, 0)
                  EXCEPT !.ok = TRUE, !.start_date = start_date, !.weeks = weeks,
                         !.weekends = generate_weekend_dates(start_date, weeks)]
    /\ UNCHANGED <<votings, vote_options, votes, ping_schedules, users, now>>

\* VotingService.create_voting
CreateVoting(chat_id) ==
    LET out == Outcome("create_voting", chat_id, 0, 0, 0)
    IN
    /\ ret = NoCall
    /\ IF get_active_voting_by_chat(chat_id) # 0
       THEN \* raise ValueError
            /\ ret' = [out EXCEPT !.exc = "ValueError"]
            /\ UNCHANGED <<votings, vote_options, votes, ping_schedules, users, now>>
       ELSE IF ~VotingInitAccepts(CreateVotingKwargs)
       THEN \* Voting(...) raises TypeError before anything is written
            /\ ret' = [out EXCEPT !.exc = "TypeError"]
            /\ UNCHANGED <<votings, vote_options, votes, ping_schedules, users, now>>
       ELSE \* db.create_voting commits the voting with the weekend options
            \* and the option without a date; then db.create_ping_schedule,
            \* a transaction of its own, commits the schedule or raises
            /\ votings' = Append(votings, [chat_id |-> chat_id, status |-> ACTIVE,
                                           title |-> DEFAULT_TITLE])
            /\ vote_options' = vote_options \o
                   [i \in 1..(2 * WEEKS + 1) |-> [voting_id |-> Len(votings) + 1]]
            /\ \/ /\ ping_schedules' =
                       Append(ping_schedules,
                              new_ping_schedule(Len(votings) + 1))
                  /\ ret' = [out EXCEPT !.ok = TRUE,
                                        !.voting_id = Len(votings) + 1]
               \/ /\ ping_schedules' = ping_schedules
                  /\ ret' = [out EXCEPT !.exc = "sqlite3.Error"]
            /\ UNCHANGED <<votes, users, now>>

\* Faulty variant of vote_for_option: the status is not looked at.
VoteForOption_any_status(user_id, option_id, voting_id) ==
    LET out == Outcome("vote_for_option", 0, user_id, option_id, voting_id)
    IN
    /\ ret = NoCall
    /\ IF ~voting_exists(voting_id)
       THEN /\ ret' = [out EXCEPT !.msg = MSG_NOT_FOUND]
            /\ UNCHANGED <<votings, vote_options, votes, ping_schedules, users, now>>
       ELSE IF has_user_voted_for_option(voting_votes(votes, voting_id),
                                         user_id, option_id)
       THEN /\ ret' = [out EXCEPT !.msg = MSG_ALREADY_VOTED]
            /\ UNCHANGED <<votings, vote_options, votes, ping_schedules, users, now>>
       ELSE /\ votes' = add_vote(votes, user_id, option_id, voting_id)
            /\ ret' = [out EXCEPT !.ok = TRUE, !.msg = MSG_VOTE_OK]
            /\ UNCHANGED <<votings, vote_options, ping_schedules, users, now>>

\* VotingService.vote_for_option
VoteForOption(user_id, option_id, voting_id) ==
    LET out == Outcome("vote_for_option", 0, user_id, option_id, voting_id)
    IN
    /\ ret = NoCall
    /\ IF ~voting_exists(voting_id)
       THEN /\ ret' = [out EXCEPT !.msg = MSG_NOT_FOUND]
            /\ UNCHANGED <<votings, vote_options, votes, ping_schedules, users, now>>
       ELSE IF votings[voting_id].status # ACTIVE
       THEN /\ ret' = [out EXCEPT !.msg = MSG_CLOSED]
            /\ UNCHANGED <<votings, vote_options, votes, ping_schedules, users, now>>
       ELSE IF has_user_voted_for_option(voting_votes(votes, voting_id),
                                         user_id, option_id)
       THEN /\ ret' = [out EXCEPT !.msg = MSG_ALREADY_VOTED]
            /\ UNCHANGED <<votings, vote_options, votes, ping_schedules, users, now>>
       ELSE /\ votes' = add_vote(votes, user_id, option_id, voting_id)
            /\ ret' = [out EXCEPT !.ok = TRUE, !.msg = MSG_VOTE_OK]
            /\ UNCHANGED <<votings, vote_options, ping_schedules, users, now>>

\* VotingService.remove_vote
RemoveVote(user_id, option_id, voting_id) ==
    LET out == Outcome("remove_vote", 0, user_id, option_id, voting_id)
    IN
    /\ ret = NoCall
    /\ IF ~voting_exists(voting_id)
       THEN /\ ret' = [out EXCEPT !.msg = MSG_NOT_FOUND]
            /\ UNCHANGED <<votings, vote_options, votes, ping_schedules, users, now>>
       ELSE IF votings[voting_id].status # ACTIVE
       THEN /\ ret' = [out EXCEPT !.msg = MSG_CLOSED]
            /\ UNCHANGED <<votings, vote_options, votes, ping_schedules, users, now>>
       ELSE IF ~has_user_voted_for_option(voting_votes(votes, voting_id),
                                          user_id, option_id)
       THEN /\ ret' = [out EXCEPT !.msg = MSG_NOT_VOTED]
            /\ UNCHANGED <<votings, vote_options, votes, ping_schedules, users, now>>
       ELSE /\ votes' = remove_vote(votes, user_id, option_id, voting_id)
            /\ ret' = IF remove_vote_rowcount(votes, user_id, option_id, voting_id) > 0
                      THEN [out EXCEPT !.ok = TRUE, !.msg = MSG_UNVOTE_OK]
                      ELSE [out EXCEPT !.msg = MSG_UNVOTE_ERR]
            /\ UNCHANGED <<votings, vote_options, ping_schedules, users, now>>

\* Faulty variant of get_voting_stats: statistics without options for a
\* voting that is missing, where the code returns None.
GetVotingStats_empty(voting_id) ==
    LET out == Outcome("get_voting_stats", 0, 0, 0, voting_id)
    IN
    /\ ret = NoCall
    /\ ret' = IF ~voting_exists(voting_id)
              THEN [out EXCEPT !.ok = TRUE,
                               !.stats = [NoStats EXCEPT
                                             !.total_users = Cardinality(users)]]
              ELSE [out EXCEPT !.ok = TRUE,
                               !.stats = get_voting_stats(votes, voting_id)]
    /\ UNCHANGED <<votings, vote_options, votes, ping_schedules, users, now>>

\* VotingService.get_voting_stats
GetVotingStats(voting_id) ==
    LET out == Outcome("get_voting_stats", 0, 0, 0, voting_id)
    IN
    /\ ret = NoCall
    /\ ret' = IF ~voting_exists(voting_id) THEN out
              ELSE [out EXCEPT !.ok = TRUE,
                               !.stats = get_voting_stats(votes, voting_id)]
    /\ UNCHANGED <<votings, vote_options, votes, ping_schedules, users, now>>

\* Faulty variant of get_non_voted_users: the members who did vote.
get_non_voted_users_voted(vts, voting_id, all_chat_members) ==
    SelectSeq(all_chat_members,
              LAMBDA u : u \in get_voted_users(voting_votes(vts, voting_id)))

\* get_non_voted_users of an existing voting, lines 177-178.
get_non_voted_users(vts, voting_id, all_chat_members) ==
    LET voted_user_ids == get_voted_users(voting_votes(vts, voting_id))
    IN SelectSeq(all_chat_members, LAMBDA u : u \notin voted_user_ids)

\* VotingService.get_non_voted_users: [] for a voting that is missing.
GetNonVotedUsers(voting_id, all_chat_members) ==
    LET out == [Outcome("get_non_voted_users", 0, 0, 0, voting_id)
                   EXCEPT !.all_chat_members = all_chat_members]
    IN
    /\ ret = NoCall
    /\ ret' = IF ~voting_exists(voting_id) THEN out
              ELSE [out EXCEPT !.ok = TRUE,
                               !.non_voted = get_non_voted_users(
                                   votes, voting_id, all_chat_members)]
    /\ UNCHANGED <<votings, vote_options, votes, ping_schedules, users, now>>

\* VotingService.get_detailed_results
GetDetailedResults(voting_id) ==
    LET out == Outcome("get_detailed_results", 0, 0, 0, voting_id)
    IN
    /\ ret = NoCall
    /\ ret' = IF ~voting_exists(voting_id) THEN out
              ELSE [out EXCEPT !.ok = TRUE,
                               !.stats = get_detailed_results(votes, voting_id)]
    /\ UNCHANGED <<votings, vote_options, votes, ping_schedules, users, now>>

\* Faulty variant of the UPDATE of close_voting: no WHERE clause.
set_status_closed_all(vtgs, voting_id) ==
    [v \in 1..Len(vtgs) |-> [vtgs[v] EXCEPT !.status = CLOSED]]

\* close_voting, lines 209-214: UPDATE votings SET status = 'closed'
\* WHERE voting_id = ?
set_status_closed(vtgs, voting_id) ==
    [vtgs EXCEPT ![voting_id].status = CLOSED]

\* Faulty variant of close_voting: the status is not looked at.
CloseVoting_any_status(voting_id) ==
    LET out == Outcome("close_voting", 0, 0, 0, voting_id)
        stats == get_voting_stats(votes, voting_id)
        sorted_options == sorted_by_votes_desc(stats.options)
    IN
    /\ ret = NoCall
    /\ IF ~voting_exists(voting_id)
       THEN /\ ret' = out
            /\ UNCHANGED <<votings, vote_options, votes, ping_schedules, users, now>>
       ELSE /\ votings' = [votings EXCEPT ![voting_id].status = CLOSED]
            /\ ret' = [out EXCEPT !.ok = TRUE,
                                  !.stats = stats,
                                  !.top_3 = top_slice(sorted_options),
                                  !.all_options = sorted_options]
            /\ UNCHANGED <<vote_options, votes, ping_schedules, users, now>>

\* VotingService.close_voting
CloseVoting(voting_id) ==
    LET out == Outcome("close_voting", 0, 0, 0, voting_id)
        stats == get_voting_stats(votes, voting_id)
        sorted_options == sorted_by_votes_desc(stats.options)
    IN
    /\ ret = NoCall
    /\ IF ~voting_exists(voting_id)
       THEN /\ ret' = out
            /\ UNCHANGED <<votings, vote_options, votes, ping_schedules, users, now>>
       ELSE IF votings[voting_id].status # ACTIVE
       THEN /\ ret' = out
            /\ UNCHANGED <<votings, vote_options, votes, ping_schedules, users, now>>
       ELSE /\ votings' = set_status_closed(votings, voting_id)
            /\ ret' = [out EXCEPT !.ok = TRUE,
                                  !.stats = stats,
                                  !.top_3 = top_slice(sorted_options),
                                  !.all_options = sorted_options]
            /\ UNCHANGED <<vote_options, votes, ping_schedules, users, now>>

---------------------------------------------------------------------------
(* scheduler.py: the reminder scheduler, and the callback bot.py gives it. *)
(* The task runs from one await to the next in one step: the store is      *)
(* synchronous, so the only awaits are the callback and the two sleeps.    *)

\* The callbacks handed to set_ping_callback: FrienGoBot._send_ping_message,
\* which catches what send_message raises, and a callback that lets it out.
CB_BOT == "_send_ping_message"
CB_RAISING == "send_message"
Callbacks == {CB_BOT, CB_RAISING}

\* The ping types "24h", "48h", "72h", by their place in the schedule.
PingTypes == 1..3

\* Does the callback raise when send_message did (sent = FALSE)?
callback_raises(callback, sent) == ~sent /\ callback = CB_RAISING

\* Faulty variant of is_pending: only the 24h ping is looked at.
is_pending_24h(schedule, current_time) ==
    schedule.ping_at[1] <= current_time /\ ~schedule.is_sent[1]

\* get_pending_pings: the rows with a ping that is due and not sent.
is_pending(schedule, current_time) ==
    \E k \in PingTypes :
        schedule.ping_at[k] <= current_time /\ ~schedule.is_sent[k]

\* Faulty variant of get_pending_pings: SELECT without the WHERE.
get_pending_pings_all(current_time) ==
    [i \in 1..Len(ping_schedules) |->
        [schedule_id |-> i,
         voting_id |-> ping_schedules[i].voting_id,
         ping_at |-> ping_schedules[i].ping_at,
         is_sent |-> ping_schedules[i].is_sent]]

get_pending_pings(current_time) ==
    SelectSeq([i \in 1..Len(ping_schedules) |->
                  [schedule_id |-> i,
                   voting_id |-> ping_schedules[i].voting_id,
                   ping_at |-> ping_schedules[i].ping_at,
                   is_sent |-> ping_schedules[i].is_sent]],
              LAMBDA schedule : is_pending(schedule, current_time))

\* Faulty variant of ping_types_of: the latest ping first.
ping_types_of_descending(schedule, current_time) ==
    SelectSeq(<<3, 2, 1>>,
              LAMBDA k : schedule.ping_at[k] <= current_time
                         /\ ~schedule.is_sent[k])

\* Faulty variant of ping_types_of: the fire times are not looked at.
ping_types_of_unsent(schedule, current_time) ==
    SelectSeq(<<1, 2, 3>>, LAMBDA k : ~schedule.is_sent[k])

\* Faulty variant of ping_types_of: the flags are not looked at.
ping_types_of_all_due(schedule, current_time) ==
    SelectSeq(<<1, 2, 3>>, LAMBDA k : schedule.ping_at[k] <= current_time)

\* _check_and_send_pings, lines 58-64: the ping types of a schedule.
ping_types_of(schedule, current_time) ==
    SelectSeq(<<1, 2, 3>>,
              LAMBDA k : schedule.ping_at[k] <= current_time
                         /\ ~schedule.is_sent[k])

\* Faulty variant of mark_ping_sent: all three flags of the schedule.
mark_ping_sent_all(schedules, schedule_id, ping_type) ==
    [schedules EXCEPT ![schedule_id].is_sent = <<TRUE, TRUE, TRUE>>]

\* mark_ping_sent: UPDATE ping_schedules SET is_<type>_sent = TRUE
\* WHERE schedule_id = ?
mark_ping_sent(schedules, schedule_id, ping_type) ==
    [schedules EXCEPT ![schedule_id].is_sent[ping_type] = TRUE]

\* The locals of _check_and_send_pings are gone when it is left.
cycle_left(s, pc) ==
    [s EXCEPT !.pc = pc, !.current_time = 0, !.pending_schedules = <<>>,
              !.schedule_id = 0, !.chat_id = 0, !.voting_id = 0,
              !.status = "", !.ping_types = <<>>]

\* Faulty variant of on_cycle_error: the exception leaves the loop.
on_cycle_error_fatal(s, e) == [cycle_left(s, "done") EXCEPT !.error = e]

\* start, lines 35-37: the exception e out of the cycle is logged, sleep(60).
on_cycle_error(s, e) == [cycle_left(s, "backoff") EXCEPT !.error = e]

\* start, line 34: the cycle returned, sleep(300).
on_cycle_end(s) == cycle_left(s, "sleep")

\* Faulty variant of for_schedules: the schedules of the votings that are
\* not ACTIVE are passed over.
RECURSIVE for_schedules_active(_, _)
for_schedules_active(s, pending) ==
    IF pending = <<>> THEN {on_cycle_end(s)}
    ELSE LET schedule == Head(pending)
             ping_types == ping_types_of(schedule, s.current_time)
         IN {on_cycle_error(s, "get_voting")} \cup
            IF \/ ~voting_exists(schedule.voting_id)
               \/ votings[schedule.voting_id].status # ACTIVE
               \/ ping_types = <<>>
            THEN for_schedules_active(s, Tail(pending))
            ELSE {[s EXCEPT !.pc = "send",
                            !.pending_schedules = Tail(pending),
                            !.schedule_id = schedule.schedule_id,
                            !.chat_id = votings[schedule.voting_id].chat_id,
                            !.voting_id = schedule.voting_id,
                            !.status = votings[schedule.voting_id].status,
                            !.ping_types = ping_types]}

\* _check_and_send_pings, lines 52-68: the for loop over the schedules, up
\* to the await of the callback for the first ping of a schedule.  The set
\* of the places the task can come to: get_voting may raise.
RECURSIVE for_schedules(_, _)
for_schedules(s, pending) ==
    IF pending = <<>> THEN {on_cycle_end(s)}
    ELSE LET schedule == Head(pending)
             ping_types == ping_types_of(schedule, s.current_time)
         IN {on_cycle_error(s, "get_voting")} \cup
            IF ~voting_exists(schedule.voting_id) \/ ping_types = <<>>
            THEN for_schedules(s, Tail(pending))
            ELSE {[s EXCEPT !.pc = "send",
                            !.pending_schedules = Tail(pending),
                            !.schedule_id = schedule.schedule_id,
                            !.chat_id = votings[schedule.voting_id].chat_id,
                            !.voting_id = schedule.voting_id,
                            !.status = votings[schedule.voting_id].status,
                            !.ping_types = ping_types]}

\* _check_and_send_pings, lines 46-50, and what follows: get_pending_pings
\* may raise.
check_and_send_pings(s) ==
    LET s0 == [s EXCEPT !.cycle = 1 - @]
        s1 == [s0 EXCEPT !.current_time = now, !.last = NoPing,
                         !.error = ""]
    IN IF s.ping_callback = "None" THEN {on_cycle_end(s0)}
       ELSE {on_cycle_error(s1, "get_pending_pings")}
            \cup for_schedules(s1, get_pending_pings(now))

SchedulerOnly ==
    UNCHANGED <<votings, vote_options, votes, users, now, ret, calls, presses>>

\* PingScheduler.set_ping_callback
SetPingCallback(callback) ==
    /\ sched.ping_callback = "None"
    /\ sched' = [sched EXCEPT !.ping_callback = callback]
    /\ UNCHANGED <<ping_schedules, log>>
    /\ SchedulerOnly

\* FrienGoBot.start_bot: asyncio.create_task(self.scheduler.start())
CreateTask ==
    /\ sched.pc = "off"
    /\ sched' = [sched EXCEPT !.pc = "created"]
    /\ UNCHANGED <<ping_schedules, log>>
    /\ SchedulerOnly

\* PingScheduler.start, lines 27-32: the task takes its first step.
StartTask ==
    /\ sched.pc = "created"
    /\ sched' \in check_and_send_pings([sched EXCEPT !.is_running = TRUE])
    /\ UNCHANGED <<ping_schedules, log>>
    /\ SchedulerOnly

\* Faulty variant of Wake: is_running is not looked at after a sleep.
Wake_unstoppable ==
    /\ sched.pc \in {"sleep", "backoff"}
    /\ sched' \in check_and_send_pings(sched)
    /\ UNCHANGED <<ping_schedules, log>>
    /\ SchedulerOnly

\* PingScheduler.start, line 30 after a sleep: while self.is_running
Wake ==
    /\ sched.pc \in {"sleep", "backoff"}
    /\ sched' \in IF sched.is_running
                  THEN check_and_send_pings(sched)
                  ELSE {[sched EXCEPT !.pc = "done", !.last = NoPing,
                                      !.error = ""]}
    /\ UNCHANGED <<ping_schedules, log>>
    /\ SchedulerOnly

\* PingScheduler.stop
Stop ==
    /\ sched.is_running
    /\ sched' = [sched EXCEPT !.is_running = FALSE]
    /\ UNCHANGED <<ping_schedules, log>>
    /\ SchedulerOnly

\* PingScheduler.stop, called when the task of start is created and has not
\* taken its first step: is_running, False already, is set to False.
StopBeforeStart ==
    /\ sched.pc = "created"
    /\ ~sched.early_stop
    /\ sched' = [sched EXCEPT !.is_running = FALSE, !.early_stop = TRUE]
    /\ UNCHANGED <<ping_schedules, log>>
    /\ SchedulerOnly

\* Faulty variant of lines 66-72: no try around the ping, what the callback
\* raises leaves the cycle.
CallbackDone_uncaught(sent, written) ==
    LET ping_type == Head(sched.ping_types)
        raised == callback_raises(sched.ping_callback, sent)
        marked == ~raised /\ written
        s1 == [sched EXCEPT !.ping_types = Tail(@),
                            !.last = [schedule_id |-> sched.schedule_id,
                                      ping_type |-> ping_type, sent |-> sent,
                                      raised |-> raised, marked |-> marked]]
    IN
    /\ sched.pc = "send"
    /\ ping_schedules' =
           IF marked
           THEN mark_ping_sent(ping_schedules, sched.schedule_id, ping_type)
           ELSE ping_schedules
    /\ sched' \in IF ~marked THEN {on_cycle_error(s1, "_send_ping")}
                  ELSE IF s1.ping_types # <<>> THEN {s1}
                  ELSE for_schedules(s1, s1.pending_schedules)
    /\ SchedulerOnly

\* _check_and_send_pings, lines 66-72: the callback awaited for the first
\* of ping_types comes back.  send_message sent the message or raised
\* (sent), the UPDATE of mark_ping_sent went through or raised (written).
\* Then the next ping of the schedule, or the next schedules.
CallbackDone(sent, written) ==
    LET ping_type == Head(sched.ping_types)
        raised == callback_raises(sched.ping_callback, sent)
        marked == ~raised /\ written
        s1 == [sched EXCEPT !.ping_types = Tail(@),
                            !.last = [schedule_id |-> sched.schedule_id,
                                      ping_type |-> ping_type, sent |-> sent,
                                      raised |-> raised, marked |-> marked]]
    IN
    /\ sched.pc = "send"
    /\ ping_schedules' =
           IF marked
           THEN mark_ping_sent(ping_schedules, sched.schedule_id, ping_type)
           ELSE ping_schedules
    /\ sched' \in IF s1.ping_types # <<>> THEN {s1}
                  ELSE for_schedules(s1, s1.pending_schedules)
    /\ SchedulerOnly

\* User objects as the bot hands them to send_manual_ping: with a username,
\* with a first name only, with neither ("None" for None).
UserAlice == [user_id |-> 1, username |-> "alice", first_name |-> "Alice"]
UserBob == [user_id |-> 2, username |-> "None", first_name |-> "Bob"]
UserAnon == [user_id |-> 3, username |-> "None", first_name |-> "None"]
UserLists ==
    {<<>>, <<UserAlice>>, <<UserBob, UserAlice>>, <<UserAnon, UserBob>>}

\* User.display_name (last_name None)
display_name(user) ==
    IF user.first_name # "None" THEN user.first_name
    ELSE IF user.username # "None" THEN user.username
    ELSE "User_" \o ToString(user.user_id)

\* send_manual_ping, lines 107-112: the mention of a user.
mention(user) ==
    IF user.username # "None" THEN "@" \o user.username
    ELSE display_name(user)

\* Faulty variant of send_manual_ping: the empty list is not looked at.
send_manual_ping_always(callback, non_voted_users, sent) ==
    LET called == [NoManualPing EXCEPT
                      !.callback = callback,
                      !.non_voted_users = non_voted_users,
                      !.sent = sent]
    IN IF callback = "None" THEN [called EXCEPT !.msg = MSG_NO_CALLBACK]
       ELSE [called EXCEPT !.msg = MSG_PING_SENT,
                           !.callback_calls = 1,
                           !.count = Len(non_voted_users)]

\* PingScheduler.send_manual_ping: what the call comes to.
send_manual_ping(callback, non_voted_users, sent) ==
    LET called == [NoManualPing EXCEPT
                      !.callback = callback,
                      !.non_voted_users = non_voted_users,
                      !.sent = sent]
        mentions == [i \in 1..Len(non_voted_users) |->
                        mention(non_voted_users[i])]
    IN IF callback = "None" THEN [called EXCEPT !.msg = MSG_NO_CALLBACK]
       ELSE IF non_voted_users = <<>>
       THEN [called EXCEPT !.msg = MSG_ALL_VOTED]
       ELSE IF callback_raises(callback, sent)
       THEN [called EXCEPT !.msg = MSG_PING_FAILED,
                           !.mentions = mentions,
                           !.callback_calls = 1,
                           !.error = CB_RAISING]
       ELSE [called EXCEPT !.msg = MSG_PING_SENT,
                           !.mentions = mentions,
                           !.callback_calls = 1,
                           !.count = Len(non_voted_users)]

\* Faulty variant of ManualPing: what the callback raises is not caught.
ManualPing_uncaught(chat_id, voting_id, non_voted_users, sent) ==
    LET ping == send_manual_ping(sched.ping_callback, non_voted_users, sent)
    IN
    /\ ret = NoCall
    /\ ret' = [Outcome("send_manual_ping", chat_id, 0, 0, voting_id)
                  EXCEPT !.ping = [ping EXCEPT !.msg =
                                      IF ping.error = "" THEN @ ELSE ""],
                         !.exc = ping.error]
    /\ UNCHANGED <<votings, vote_options, votes, ping_schedules, users, now,
                   sched, log, calls, presses>>

\* PingScheduler.send_manual_ping, from the call to the return.
ManualPing(chat_id, voting_id, non_voted_users, sent) ==
    /\ ret = NoCall
    /\ ret' = [Outcome("send_manual_ping", chat_id, 0, 0, voting_id)
                  EXCEPT !.ping = send_manual_ping(sched.ping_callback,
                                                   non_voted_users, sent)]
    /\ UNCHANGED <<votings, vote_options, votes, ping_schedules, users, now,
                   sched, log, calls, presses>>

\* def _get_ping_message(self, ping_type): the positional arguments it
\* takes after self.
GET_PING_MESSAGE_ARGS == 1

\* _get_ping_message(ping_type, *more): TypeError when more is not empty;
\* else the line of the hours of ping_type and the reminder, with no user
\* in it.
get_ping_message(ping_type, more) ==
    IF 1 + Len(more) # GET_PING_MESSAGE_ARGS
    THEN [NoManualPing EXCEPT !.ping_type = ping_type, !.error = "TypeError"]
    ELSE [NoManualPing EXCEPT !.ping_type = ping_type, !.msg = MSG_REMINDER]

\* PingScheduler._get_ping_message for a voting whose non-voters are
\* non_voted_users: called with the ping type alone, as _send_ping does
\* (line 83), or with the users as well (given), as tests/test_scheduler.py
\* does.
GetPingMessage(ping_type, non_voted_users, given) ==
    LET message == get_ping_message(ping_type,
                                    IF given THEN <<non_voted_users>>
                                    ELSE <<>>)
    IN
    /\ ret = NoCall
    /\ ret' = [Outcome("_get_ping_message", 0, 0, 0, 0)
                  EXCEPT !.ping = [message EXCEPT
                                      !.non_voted_users = non_voted_users,
                                      !.error = ""],
                         !.exc = message.error]
    /\ UNCHANGED <<votings, vote_options, votes, ping_schedules, users, now,
                   sched, log, calls, presses>>

\* DatabaseManager.mark_ping_sent, called on the store directly.
DbMarkPingSent(schedule_id, ping_type) ==
    /\ ret = NoCall
    /\ ping_schedules' = mark_ping_sent(ping_schedules, schedule_id, ping_type)
    /\ UNCHANGED <<votings, vote_options, votes, users, now, ret, sched, log,
                   calls, presses>>

\* The record of the pings sent whose flag is not set, after the callback
\* came back as sched'.last tells.
log_of(last) ==
    IF last.marked THEN log \ {<<last.schedule_id, last.ping_type>>}
    ELSE IF last.sent THEN log \cup {<<last.schedule_id, last.ping_type>>}
    ELSE log

\* Time passes: a day.
Tick ==
    /\ now' = now + PING_24H
    /\ now' <= MaxDays * PING_24H
    /\ UNCHANGED <<votings, vote_options, votes, ping_schedules, users, ret,
                   sched, log, calls, presses>>

\* The calls, each within the bounds of the model.
Rows ==
    Len(votings) + Len(vote_options) + Len(votes) + Len(ping_schedules)
    + Cardinality(users)

Bounded == Rows' <= MaxRows

\* The engine and the store leave the scheduler alone.
NoScheduler == UNCHANGED <<sched, log, calls, presses>>

Next ==
    \/ Return /\ NoScheduler
    \/ \E u \in Users : SaveUser(u) /\ Bounded /\ NoScheduler
    \/ \E c \in Chats, n \in 1..MaxRows :
           DbCreateVoting(c, n) /\ Bounded /\ NoScheduler
    \/ \E v \in 1..Len(votings) :
           DbCreatePingSchedule(v) /\ Bounded /\ NoScheduler
    \/ \E c \in Chats :
           CreateVoting(c) /\ Len(votings') <= MaxRows /\ NoScheduler
    \/ \E u \in Users, o \in OptionIdInputs, v \in VotingIdInputs :
           VoteForOption(u, o, v) /\ Bounded /\ NoScheduler
    \/ \E u \in Users, o \in OptionIdInputs, v \in VotingIdInputs :
           RemoveVote(u, o, v) /\ NoScheduler
    \/ \E v \in VotingIdInputs : GetVotingStats(v) /\ NoScheduler
    \/ \E v \in VotingIdInputs, m \in MemberLists :
           GetNonVotedUsers(v, m) /\ NoScheduler
    \/ \E v \in VotingIdInputs : GetDetailedResults(v) /\ NoScheduler
    \/ \E v \in VotingIdInputs : CloseVoting(v) /\ NoScheduler

Spec == Init /\ [][Next]_vars

\* The scheduler at work on the votings and schedules that are in the store
\* when the bot creates its task (rows added later are left out), with the
\* record log kept or not.
SchedStep(keep_log) ==
    \/ sched.pc = "off" /\ DbCreateVoting(1, 2) /\ Bounded /\ NoScheduler
    \/ \E v \in VotingIdInputs :
           /\ sched.pc = "off"
           /\ DbCreatePingSchedule(v)
           /\ Len(ping_schedules') <= MaxSchedules
           /\ Bounded
           /\ NoScheduler
    \/ Tick
    \/ \E callback \in Callbacks :
           sched.pc = "off" /\ SetPingCallback(callback)
    \/ CreateTask
    \/ StartTask
    \/ Wake
    \/ Stop
    \/ \E sent \in BOOLEAN, written \in BOOLEAN :
           /\ CallbackDone(sent, written)
           /\ log' = IF keep_log THEN log_of(sched'.last) ELSE log

SchedNext == SchedStep(FALSE)

SchedSpec == Init /\ [][SchedNext]_vars

SchedLogNext == SchedStep(TRUE)

SchedLogSpec == Init /\ [][SchedLogNext]_vars

\* The scheduler at work while a voting is closed: close_voting is called
\* once, at any time, before the task is created or between two of its
\* steps (ret keeps what it returned).
SchedCloseNext ==
    \/ SchedNext
    \/ \E v \in 1..Len(votings) : CloseVoting(v) /\ NoScheduler

\* A step of the task of PingScheduler.start: it is started, a sleep ends,
\* or the awaited callback comes back.
TaskStep ==
    \/ StartTask
    \/ Wake
    \/ \E sent \in BOOLEAN, written \in BOOLEAN :
           CallbackDone(sent, written) /\ UNCHANGED log

\* The event loop runs the task whenever it can take a step: every sleep
\* ends and every awaited callback comes back.
SchedFairSpec == Init /\ [][SchedNext]_vars /\ WF_vars(TaskStep)

\* A step of the task in which no read of the store raises before the
\* callback is awaited for a ping.
ReachSend == TaskStep /\ sched'.pc = "send"

\* The callback comes back with the message sent and the flag is written.
Delivered == CallbackDone(TRUE, TRUE) /\ UNCHANGED log

\* The scheduler when stop may also be called before the first step of the
\* task, the task taking its steps whenever it can.
SchedStopNext == SchedNext \/ StopBeforeStart

SchedStopFairSpec == Init /\ [][SchedStopNext]_vars /\ WF_vars(TaskStep)

\* The reads of the store, send_message and the UPDATE of the flag do not
\* raise forever.
SchedLiveSpec ==
    /\ Init /\ [][SchedNext]_vars
    /\ WF_vars(TaskStep)
    /\ SF_vars(ReachSend)
    /\ SF_vars(Delivered)

\* The same fairness while votings are closed.
SchedCloseLiveSpec ==
    /\ Init /\ [][SchedCloseNext]_vars
    /\ WF_vars(TaskStep)
    /\ SF_vars(ReachSend)
    /\ SF_vars(Delivered)

\* vote_for_option, lines 96-105: get_voting and the three checks.  The
\* call returns its rejection, or goes on to db.add_vote.
VoteRead(user_id, option_id, voting_id) ==
    LET voting == IF voting_exists(voting_id)
                  THEN [found |-> TRUE,
                        status |-> votings[voting_id].status,
                        votes |-> voting_votes(votes, voting_id)]
                  ELSE NoVoteCall.voting
        call == [NoVoteCall EXCEPT !.option_id = option_id,
                                   !.voting_id = voting_id,
                                   !.voting = voting]
    IN
    /\ ret = NoCall
    /\ calls[user_id].pc = "idle"
    /\ calls' = [calls EXCEPT ![user_id] =
           IF ~voting.found
           THEN [call EXCEPT !.pc = "done", !.msg = MSG_NOT_FOUND]
           ELSE IF voting.status # ACTIVE
           THEN [call EXCEPT !.pc = "done", !.msg = MSG_CLOSED]
           ELSE IF has_user_voted_for_option(voting.votes, user_id, option_id)
           THEN [call EXCEPT !.pc = "done", !.msg = MSG_ALREADY_VOTED]
           ELSE [call EXCEPT !.pc = "add_vote"]]
    /\ UNCHANGED <<votings, vote_options, votes, ping_schedules, users, now,
                   ret, sched, log, presses>>

\* Faulty variant of VoteWrite: the votes that get_voting returned are
\* written back with the new one.
VoteWrite_stale(user_id) ==
    LET call == calls[user_id]
    IN
    /\ call.pc = "add_vote"
    /\ votes' = SelectSeq(votes, LAMBDA v : v.voting_id # call.voting_id)
                 \o add_vote(call.voting.votes, user_id, call.option_id,
                             call.voting_id)
    /\ calls' = [calls EXCEPT ![user_id] =
                    [call EXCEPT !.pc = "done", !.ok = TRUE,
                                 !.msg = MSG_VOTE_OK]]
    /\ UNCHANGED <<votings, vote_options, ping_schedules, users, now, ret,
                   sched, log, presses>>

\* vote_for_option, lines 107-118: db.add_vote and the return.
VoteWrite(user_id) ==
    LET call == calls[user_id]
    IN
    /\ call.pc = "add_vote"
    /\ votes' = add_vote(votes, user_id, call.option_id, call.voting_id)
    /\ calls' = [calls EXCEPT ![user_id] =
                    [call EXCEPT !.pc = "done", !.ok = TRUE,
                                 !.msg = MSG_VOTE_OK]]
    /\ UNCHANGED <<votings, vote_options, ping_schedules, users, now, ret,
                   sched, log, presses>>

\* The caller has the result; the user may call again.
VoteReturn(user_id) ==
    /\ calls[user_id].pc = "done"
    /\ calls' = [calls EXCEPT ![user_id] = NoVoteCall]
    /\ UNCHANGED <<votings, vote_options, votes, ping_schedules, users, now,
                   ret, sched, log, presses>>

\* The users vote at the same time: the calls of vote_for_option of
\* different users overlap in every way, each user making one call after
\* the other.
ConcNext ==
    \/ \E n \in 1..ConcOptions :
           DbCreateVoting(1, n) /\ Bounded /\ NoScheduler
    \/ \E u \in Users, o \in OptionIdInputs, v \in VotingIdInputs :
           VoteRead(u, o, v)
    \/ \E u \in Users : VoteWrite(u) /\ Bounded
    \/ \E u \in Users : VoteReturn(u)

ConcSpec == Init /\ [][ConcNext]_vars

(* bot.py: the handler of the buttons of the voting message. *)

\* vote_for_option as a function of the store: the votes after the call
\* and what it returns.
vote_for_option(user_id, option_id, voting_id) ==
    IF ~voting_exists(voting_id)
    THEN [votes |-> votes, ok |-> FALSE, msg |-> MSG_NOT_FOUND]
    ELSE IF votings[voting_id].status # ACTIVE
    THEN [votes |-> votes, ok |-> FALSE, msg |-> MSG_CLOSED]
    ELSE IF has_user_voted_for_option(voting_votes(votes, voting_id),
                                      user_id, option_id)
    THEN [votes |-> votes, ok |-> FALSE, msg |-> MSG_ALREADY_VOTED]
    ELSE [votes |-> add_vote(votes, user_id, option_id, voting_id),
          ok |-> TRUE, msg |-> MSG_VOTE_OK]

\* VotingService.remove_vote as a function of the store.
service_remove_vote(user_id, option_id, voting_id) ==
    IF ~voting_exists(voting_id)
    THEN [votes |-> votes, ok |-> FALSE, msg |-> MSG_NOT_FOUND]
    ELSE IF votings[voting_id].status # ACTIVE
    THEN [votes |-> votes, ok |-> FALSE, msg |-> MSG_CLOSED]
    ELSE IF ~has_user_voted_for_option(voting_votes(votes, voting_id),
                                       user_id, option_id)
    THEN [votes |-> votes, ok |-> FALSE, msg |-> MSG_NOT_VOTED]
    ELSE IF remove_vote_rowcount(votes, user_id, option_id, voting_id) > 0
    THEN [votes |-> remove_vote(votes, user_id, option_id, voting_id),
          ok |-> TRUE, msg |-> MSG_UNVOTE_OK]
    ELSE [votes |-> remove_vote(votes, user_id, option_id, voting_id),
          ok |-> FALSE, msg |-> MSG_UNVOTE_ERR]

\* handle_callback, lines 349-350: a user presses the button of an option
\* of a voting message; the handler awaits query.answer().
Press(h, user_id, option_id, voting_id) ==
    /\ presses[h].pc = "idle"
    /\ voting_exists(voting_id)
    /\ option_id \in SeqToSet(voting_options(voting_id))
    /\ presses' = [presses EXCEPT ![h] =
                      [NoPress EXCEPT !.pc = "answer", !.user_id = user_id,
                                      !.option_id = option_id,
                                      !.voting_id = voting_id]]
    /\ UNCHANGED <<votings, vote_options, votes, ping_schedules, users, now,
                   ret, sched, log, calls>>

\* Faulty variant of HandlePress: vote_for_option whatever the votes are.
HandlePress_vote(h) ==
    LET press == presses[h]
        call == vote_for_option(press.user_id, press.option_id,
                                press.voting_id)
    IN
    /\ press.pc = "answer"
    /\ users' = users \cup {press.user_id}
    /\ votes' = call.votes
    /\ presses' = [presses EXCEPT ![h] =
                      [press EXCEPT !.pc = "reply", !.action = "vote",
                                    !.ok = call.ok, !.msg = call.msg]]
    /\ UNCHANGED <<votings, vote_options, ping_schedules, now, ret, sched,
                   log, calls>>

\* handle_callback, lines 352-400, from query.answer() to the next await:
\* save_user, get_voting, then remove_vote when the user has a Vote for the
\* option and vote_for_option when not; nothing is awaited in between.
HandlePress(h) ==
    LET press == presses[h]
        voted == has_user_voted_for_option(
                     voting_votes(votes, press.voting_id),
                     press.user_id, press.option_id)
        action == IF ~voting_exists(press.voting_id) THEN ""
                  ELSE IF voted THEN "unvote" ELSE "vote"
        call == IF action = "unvote"
                THEN service_remove_vote(press.user_id, press.option_id,
                                         press.voting_id)
                ELSE IF action = "vote"
                THEN vote_for_option(press.user_id, press.option_id,
                                     press.voting_id)
                ELSE [votes |-> votes, ok |-> FALSE, msg |-> MSG_NOT_FOUND]
    IN
    /\ press.pc = "answer"
    /\ users' = users \cup {press.user_id}
    /\ votes' = call.votes
    /\ presses' = [presses EXCEPT ![h] =
                      [press EXCEPT !.pc = "reply", !.action = action,
                                    !.ok = call.ok, !.msg = call.msg]]
    /\ UNCHANGED <<votings, vote_options, ping_schedules, now, ret, sched,
                   log, calls>>

\* handle_callback, lines 386-400: the awaited edit, notification or alert
\* comes back and the handler returns.
PressDone(h) ==
    /\ presses[h].pc = "reply"
    /\ presses' = [presses EXCEPT ![h] = NoPress]
    /\ UNCHANGED <<votings, vote_options, votes, ping_schedules, users, now,
                   ret, sched, log, calls>>

\* Users press the buttons of a voting of the chat, the handlers overlap in
\* every way their awaits allow, and the voting is closed at any time.
PressNext ==
    \/ \E n \in 1..ConcOptions :
           DbCreateVoting(1, n) /\ Bounded /\ NoScheduler
    \/ \E h \in Handlers, u \in Users, o \in OptionIdInputs,
          v \in VotingIdInputs : Press(h, u, o, v)
    \/ \E h \in Handlers : HandlePress(h) /\ Bounded
    \/ \E h \in Handlers : PressDone(h)
    \/ \E v \in 1..Len(votings) : CloseVoting(v) /\ NoScheduler
    \/ Return /\ NoScheduler

PressSpec == Init /\ [][PressNext]_vars

(* bot.py: the /close command. *)

\* The replies of close_voting_command.
MSG_NO_ACTIVE == "no active voting"
MSG_CLOSE_ERR == "error closing voting"
MSG_CLOSE_OK == "voting closed"

\* Faulty variant of close_voting: the status is not read again, the
\* voting the command read before the await is closed.
close_voting_unchecked(voting_id) ==
    [votings |-> set_status_closed(votings, voting_id), ok |-> TRUE,
     msg |-> MSG_CLOSE_OK]

\* close_voting as the command sees it: the votings after the call and
\* whether it returned results (None when the voting is missing or not
\* ACTIVE).
close_voting(voting_id) ==
    IF voting_exists(voting_id) /\ votings[voting_id].status = ACTIVE
    THEN [votings |-> set_status_closed(votings, voting_id), ok |-> TRUE,
          msg |-> MSG_CLOSE_OK]
    ELSE [votings |-> votings, ok |-> FALSE, msg |-> MSG_CLOSE_ERR]

\* close_voting_command, lines 267-286, up to its first await: without an
\* ACTIVE voting in the chat the reply that there is none; with one whose
\* message is known (pinned) the await of unpin_chat_message; with one
\* whose message_id is None close_voting at once.
CloseCommand(h, chat_id, pinned) ==
    LET voting_id == get_active_voting_by_chat(chat_id)
        command == [NoPress EXCEPT !.action = "close",
                                   !.voting_id = voting_id]
        call == close_voting(voting_id)
    IN
    /\ presses[h].pc = "idle"
    /\ IF voting_id = 0
       THEN /\ presses' = [presses EXCEPT ![h] =
                   [command EXCEPT !.pc = "reply", !.msg = MSG_NO_ACTIVE]]
            /\ UNCHANGED votings
       ELSE IF pinned
       THEN /\ presses' = [presses EXCEPT ![h] =
                   [command EXCEPT !.pc = "unpin"]]
            /\ UNCHANGED votings
       ELSE /\ presses' = [presses EXCEPT ![h] =
                   [command EXCEPT !.pc = "reply", !.ok = call.ok,
                                   !.msg = call.msg]]
            /\ votings' = call.votings
    /\ UNCHANGED <<vote_options, votes, ping_schedules, users, now, ret,
                   sched, log, calls>>

\* close_voting_command, lines 277-289: unpin_chat_message comes back or
\* raises (caught), then close_voting for the voting read before the await.
CloseAfterUnpin(h) ==
    LET call == close_voting(presses[h].voting_id)
    IN
    /\ presses[h].pc = "unpin"
    /\ presses' = [presses EXCEPT ![h] =
           [@ EXCEPT !.pc = "reply", !.ok = call.ok, !.msg = call.msg]]
    /\ votings' = call.votings
    /\ UNCHANGED <<vote_options, votes, ping_schedules, users, now, ret,
                   sched, log, calls>>

\* close_voting_command, lines 271, 288, 304-307: the awaited replies come
\* back and the command returns.
CloseCommandDone(h) ==
    /\ presses[h].pc = "reply"
    /\ presses[h].action = "close"
    /\ presses' = [presses EXCEPT ![h] = NoPress]
    /\ UNCHANGED <<votings, vote_options, votes, ping_schedules, users, now,
                   ret, sched, log, calls>>

\* /close commands of the chats overlap in every way their awaits allow; a
\* chat gets a new voting when it has no ACTIVE one.
CloseNext ==
    \/ \E c \in Chats, n \in 1..ConcOptions :
           /\ get_active_voting_by_chat(c) = 0
           /\ DbCreateVoting(c, n) /\ Bounded /\ NoScheduler
    \/ \E h \in Handlers, c \in Chats, pinned \in BOOLEAN :
           CloseCommand(h, c, pinned)
    \/ \E h \in Handlers : CloseAfterUnpin(h)
    \/ \E h \in Handlers : CloseCommandDone(h)

CloseSpec == Init /\ [][CloseNext]_vars

\* Manual pings on a store with votings and schedules, some of their flags
\* set, with and without a callback; and the messages of the pings of the
\* scan.
ManualNext ==
    \/ DbCreateVoting(1, 2) /\ Bounded /\ NoScheduler
    \/ \E v \in VotingIdInputs :
           /\ DbCreatePingSchedule(v)
           /\ Len(ping_schedules') <= MaxSchedules
           /\ Bounded
           /\ NoScheduler
    \/ \E s \in 1..Len(ping_schedules), k \in PingTypes : DbMarkPingSent(s, k)
    \/ \E callback \in Callbacks : SetPingCallback(callback)
    \/ \E v \in VotingIdInputs, l \in UserLists, sent \in BOOLEAN :
           ManualPing(1, v, l, sent)
    \/ \E k \in PingTypes, l \in UserLists, given \in BOOLEAN :
           GetPingMessage(k, l, given)
    \/ Return /\ NoScheduler

ManualSpec == Init /\ [][ManualNext]_vars

\* The weekend dates, for every start date and lookahead of the bounds.
WeekendNext ==
    \/ Return /\ NoScheduler
    \/ \E start_date \in 0..MaxStartDate, weeks \in 0..MaxWeeks :
           GenerateWeekendDates(start_date, weeks) /\ NoScheduler

WeekendSpec == Init /\ [][WeekendNext]_vars
---------------------------------------------------------------------------
(* What the claims speak of, read off the tables themselves. *)

\* The ACTIVE votings of a chat.
ActiveOf(chat_id) ==
    {v \in 1..Len(votings) :
        votings[v].chat_id = chat_id /\ votings[v].status = ACTIVE}

AtMostOneActive == \A c \in Chats : Cardinality(ActiveOf(c)) <= 1

\* The rows of table vts that are the Vote of (user, option) in a voting.
VoteRows(vts, user_id, option_id, voting_id) ==
    {i \in 1..Len(vts) : /\ vts[i].user_id = user_id
                         /\ vts[i].option_id = option_id
                         /\ vts[i].voting_id = voting_id}

\* The rows of table vts that belong to a voting, in order.
VotesOfVoting(vts, voting_id) ==
    SelectSeq(vts, LAMBDA r : r.voting_id = voting_id)

\* A step that is a call of the engine (only the engine leaves an outcome).
EngineCall == ret = NoCall /\ ret' # NoCall

StoreUnchanged ==
    UNCHANGED <<votings, vote_options, votes, ping_schedules, users>>

---------------------------------------------------------------------------
\* C1: no call of the engine (create_voting, vote_for_option, remove_vote,
\* close_voting, the queries) takes a store in which every chat has at most
\* one ACTIVE voting to a store in which some chat has two; the empty store
\* has none, so every store the engine alone reaches has at most one
\* ACTIVE voting per chat.
C1_OneActivePerChat ==
    [][(EngineCall /\ AtMostOneActive) => AtMostOneActive']_vars

\* C1 witness: create_voting was called for a chat that holds a CLOSED and
\* an ACTIVE voting, and every chat still has at most one ACTIVE voting.
C1_Witness ==
    /\ ret.op = "create_voting"
    /\ AtMostOneActive
    /\ Cardinality(ActiveOf(ret.chat_id)) = 1
    /\ \E v \in 1..Len(votings) :
           votings[v].chat_id = ret.chat_id /\ votings[v].status = CLOSED

\* C2: create_voting for a chat that has an ACTIVE voting raises the
\* conflict error (ValueError) and changes no table.
C2_CreateConflictNoMutation ==
    [][(ret = NoCall /\ ret'.op = "create_voting"
            /\ ActiveOf(ret'.chat_id) # {})
        => (ret'.exc = "ValueError" /\ ~ret'.ok /\ StoreUnchanged)]_vars

\* C2 witness: the conflict error was raised with votes and a reminder
\* schedule in the store.
C2_Witness ==
    /\ ret.op = "create_voting"
    /\ ret.exc = "ValueError"
    /\ votes # <<>>
    /\ ping_schedules # <<>>

\* C3: in every reachable store no two rows of votes are the Vote of the
\* same user for the same option in the same voting.
C3_OneVotePerUserOption ==
    \A i, j \in 1..Len(votes) : votes[i] = votes[j] => i = j

\* C3 witness: a second vote for a pair that holds a Vote was turned down,
\* and the user holds Votes for two options of the voting.
C3_Witness ==
    /\ ret.op = "vote_for_option"
    /\ ret.msg = MSG_ALREADY_VOTED
    /\ Cardinality(VoteRows(votes, ret.user_id, ret.option_id, ret.voting_id)) = 1
    /\ \E o \in 1..Len(vote_options) :
           /\ o # ret.option_id
           /\ VoteRows(votes, ret.user_id, o, ret.voting_id) # {}

\* C4: on an ACTIVE voting, vote_for_option for a pair that holds a Vote
\* returns (False, "already voted"), remove_vote for a pair that holds none
\* returns (False, "not voted"), and neither changes any table.
C4_WrongDirectionRejected ==
    [][\A v \in 1..Len(votings) :
        (ret = NoCall /\ ret'.voting_id = v /\ votings[v].status = ACTIVE) =>
          LET held == VoteRows(votes, ret'.user_id, ret'.option_id, v) # {}
          IN /\ (ret'.op = "vote_for_option" /\ held) =>
                    (~ret'.ok /\ ret'.msg = MSG_ALREADY_VOTED /\ StoreUnchanged)
             /\ (ret'.op = "remove_vote" /\ ~held) =>
                    (~ret'.ok /\ ret'.msg = MSG_NOT_VOTED /\ StoreUnchanged)]_vars

\* C4 witness: remove_vote was turned down for an option the user did not
\* vote for, while the user holds a Vote for another option of the voting.
C4_Witness ==
    /\ ret.op = "remove_vote"
    /\ ret.msg = MSG_NOT_VOTED
    /\ \E i \in 1..Len(votes) : /\ votes[i].user_id = ret.user_id
                                /\ votes[i].voting_id = ret.voting_id
                                /\ votes[i].option_id # ret.option_id

\* C5: after a successful vote_for_option the Vote is held, remove_vote of
\* the same triple succeeds (the voting is ACTIVE, a row is deleted), and it
\* leaves the statistics of the voting (every option's count and ordered
\* voters, the number of distinct voters) as they were before the vote.
C5_VoteUnvoteRoundTrip ==
    [][(ret = NoCall /\ ret'.op = "vote_for_option" /\ ret'.ok) =>
        LET u == ret'.user_id
            o == ret'.option_id
            v == ret'.voting_id
            back == remove_vote(votes', u, o, v)
        IN /\ VoteRows(votes, u, o, v) = {}
           /\ VoteRows(votes', u, o, v) # {}
           /\ votings'[v].status = ACTIVE
           /\ remove_vote_rowcount(votes', u, o, v) > 0
           /\ get_voting_stats(back, v) = get_voting_stats(votes, v)
           /\ VotesOfVoting(back, v) = VotesOfVoting(votes, v)]_vars

\* C5 witness: a vote was removed again, and the user still holds another
\* Vote in the voting, behind a Vote of another user.
C5_Witness ==
    /\ ret.op = "remove_vote"
    /\ ret.ok
    /\ \E i, j \in 1..Len(votes) :
           /\ i < j
           /\ votes[i].voting_id = ret.voting_id
           /\ votes[i].user_id # ret.user_id
           /\ votes[j].voting_id = ret.voting_id
           /\ votes[j].user_id = ret.user_id

\* C6: a voting that is CLOSED stays CLOSED, and the status of a voting
\* changes only in a successful close_voting of that voting, from ACTIVE to
\* CLOSED.
C6_StatusMachine ==
    [][\A v \in 1..Len(votings) :
        /\ Len(votings') >= Len(votings)
        /\ votings[v].status = CLOSED => votings'[v].status = CLOSED
        /\ votings'[v].status # votings[v].status =>
              /\ ret'.op = "close_voting" /\ ret'.ok /\ ret'.voting_id = v
              /\ votings[v].status = ACTIVE
              /\ votings'[v].status = CLOSED]_vars

\* C6 witness: close_voting closed one voting while another is ACTIVE.
C6_Witness ==
    /\ ret.op = "close_voting"
    /\ ret.ok
    /\ votings[ret.voting_id].status = CLOSED
    /\ \E w \in 1..Len(votings) : votings[w].status = ACTIVE

\* C7: vote_for_option and remove_vote on a CLOSED voting return
\* (False, "already closed"), and no step changes the votes of a CLOSED
\* voting.
C7_ClosedPollFrozen ==
    [][\A v \in 1..Len(votings) : votings[v].status = CLOSED =>
        /\ VotesOfVoting(votes', v) = VotesOfVoting(votes, v)
        /\ (ret = NoCall /\ ret'.op \in {"vote_for_option", "remove_vote"}
               /\ ret'.voting_id = v)
            => (~ret'.ok /\ ret'.msg = MSG_CLOSED)]_vars

\* C7 witness: a vote was turned down on a CLOSED voting that holds Votes.
C7_Witness ==
    /\ ret.op \in {"vote_for_option", "remove_vote"}
    /\ ret.msg = MSG_CLOSED
    /\ VotesOfVoting(votes, ret.voting_id) # <<>>

\* C8: close_voting of a voting that is CLOSED returns None and changes no
\* table.
C8_CloseTwiceNoop ==
    [][\A v \in 1..Len(votings) :
        (ret = NoCall /\ ret'.op = "close_voting" /\ ret'.voting_id = v
            /\ votings[v].status = CLOSED)
        => (ret' = Outcome("close_voting", 0, 0, 0, v) /\ StoreUnchanged)]_vars

\* C8 witness: close_voting returned None for a CLOSED voting that has a
\* Vote and a reminder schedule.
C8_Witness ==
    /\ ret.op = "close_voting"
    /\ ~ret.ok
    /\ ret.voting_id \in 1..Len(votings)
    /\ votings[ret.voting_id].status = CLOSED
    /\ VotesOfVoting(votes, ret.voting_id) # <<>>
    /\ \E s \in 1..Len(ping_schedules) :
           ping_schedules[s].voting_id = ret.voting_id

\* C9: for a voting id that is not stored, vote_for_option and remove_vote
\* return (False, "not found"), get_voting_stats, get_detailed_results and
\* close_voting return None, and no table changes.
C9_MissingPoll ==
    [][(ret = NoCall /\ ret'.op \in {"vote_for_option", "remove_vote",
                                     "get_voting_stats", "get_detailed_results",
                                     "close_voting"}
            /\ ret'.voting_id \notin 1..Len(votings))
        => /\ StoreUnchanged
           /\ ret'.exc = ""
           /\ ~ret'.ok
           /\ ret'.stats = NoStats /\ ret'.top_3 = <<>> /\ ret'.all_options = <<>>
           /\ ret'.msg = IF ret'.op \in {"vote_for_option", "remove_vote"}
                         THEN MSG_NOT_FOUND ELSE ""]_vars

\* C9 witness: a query of a missing voting returned None while the store
\* holds a voting with a Vote.
C9_Witness ==
    /\ ret.op = "get_detailed_results"
    /\ ~ret.ok
    /\ ret.voting_id > Len(votings)
    /\ votes # <<>>

\* The place of the entry of an option in a sequence of entries.
PlaceOf(entries, option_id) ==
    CHOOSE i \in 1..Len(entries) : entries[i].option_id = option_id

\* ranked holds the entries of options, each once, by votes_count
\* descending, entries of equal count in the order they have in options.
IsRanking(ranked, options) ==
    /\ Len(ranked) = Len(options)
    /\ SeqToSet(ranked) = SeqToSet(options)
    /\ \A i, j \in 1..Len(ranked) : i < j =>
          /\ ranked[i].votes_count >= ranked[j].votes_count
          /\ ranked[i].votes_count = ranked[j].votes_count =>
                PlaceOf(options, ranked[i].option_id)
                    < PlaceOf(options, ranked[j].option_id)

\* Entries of options 1..Len(counts) with the vote counts given.
EntriesOf(counts) ==
    [i \in 1..Len(counts) |->
        [option_id |-> i, votes_count |-> counts[i], voters |-> <<>>]]

CountsOf(entries) == [i \in 1..Len(entries) |-> entries[i].votes_count]

\* C10: a successful close_voting returns all_options, a ranking of all the
\* options of the voting (zero-vote options too) by vote count descending
\* with ties in their original order, and top_3, its first min(3, n)
\* entries; options with counts 5, 0, 2, 3 give a top_3 of counts 5, 3, 2.
C10_CloseRanking ==
    /\ (ret.op = "close_voting" /\ ret.ok) =>
          /\ ret.stats = get_voting_stats(votes, ret.voting_id)
          /\ Len(ret.all_options) = Len(voting_options(ret.voting_id))
          /\ IsRanking(ret.all_options, ret.stats.options)
          /\ Len(ret.top_3) = Min(3, Len(ret.all_options))
          /\ \A i \in 1..Len(ret.top_3) : ret.top_3[i] = ret.all_options[i]
    /\ CountsOf(top_slice(sorted_by_votes_desc(EntriesOf(<<5, 0, 2, 3>>))))
          = <<5, 3, 2>>
    /\ IsRanking(sorted_by_votes_desc(EntriesOf(<<5, 0, 2, 3>>)),
                 EntriesOf(<<5, 0, 2, 3>>))

\* C10 witness: a voting of four options was closed, the ranking moved a
\* voted option ahead of zero-vote options, and top_3 holds zero-vote
\* options and leaves the last of them out.
C10_Witness ==
    /\ ret.op = "close_voting"
    /\ ret.ok
    /\ Len(ret.all_options) = 4
    /\ ret.all_options # ret.stats.options
    /\ ret.top_3[1].votes_count > 0
    /\ ret.top_3[2].votes_count = 0
    /\ ret.top_3[3].votes_count = 0
    /\ ret.all_options[4] \notin SeqToSet(ret.top_3)

---------------------------------------------------------------------------
\* The rows of votes that are Votes for an option in a voting.
OptionVoteRows(option_id, voting_id) ==
    {i \in 1..Len(votes) : /\ votes[i].option_id = option_id
                           /\ votes[i].voting_id = voting_id}

\* The k-th smallest member of a set of numbers.
KthOf(S, k) == CHOOSE x \in S : Cardinality({y \in S : y < x}) = k - 1

\* The users who hold a Vote in a voting.
VotersOf(voting_id) ==
    {votes[i].user_id : i \in {j \in 1..Len(votes) : votes[j].voting_id = voting_id}}

\* C11: get_voting_stats of a stored voting reports one entry per option of
\* the voting, in option order; votes_count of an entry is the number of
\* Vote rows of the voting for the option, voters are their users in the
\* order the rows were inserted; voted_users is the number of distinct
\* users with a Vote in the voting, total_users the size of the registry.
C11_StatsMatchVotes ==
    (ret.op = "get_voting_stats" /\ ret.ok) =>
        LET v == ret.voting_id
            own == {o \in 1..Len(vote_options) : vote_options[o].voting_id = v}
            entries == ret.stats.options
        IN /\ Len(entries) = Cardinality(own)
           /\ \A k \in 1..Len(entries) :
                LET e == entries[k]
                    rows == OptionVoteRows(e.option_id, v)
                IN /\ e.option_id = KthOf(own, k)
                   /\ e.votes_count = Cardinality(rows)
                   /\ Len(e.voters) = Cardinality(rows)
                   /\ \A n \in 1..Len(e.voters) :
                          e.voters[n] = votes[KthOf(rows, n)].user_id
           /\ ret.stats.voted_users = Cardinality(VotersOf(v))
           /\ ret.stats.total_users = Cardinality(users)

\* C11 witness: statistics with an option whose voters are listed in the
\* order they voted (user 2 ahead of user 1), where user 2 holds a Vote for
\* another option as well, so that three Votes come from two users.
C11_Witness ==
    /\ ret.op = "get_voting_stats"
    /\ ret.ok
    /\ ret.stats.voted_users = 2
    /\ \E k, m \in 1..Len(ret.stats.options) :
           /\ k # m
           /\ ret.stats.options[k].voters = <<2, 1>>
           /\ ret.stats.options[m].voters = <<2>>

\* C12: get_non_voted_users of a stored voting returns the members handed
\* in whose id is not that of a user with a Vote in the voting, in the
\* order they were handed in; it changes no table.
C12_NonVotersFilter ==
    [][(ret = NoCall /\ ret'.op = "get_non_voted_users") =>
        /\ StoreUnchanged
        /\ ret'.voting_id \in 1..Len(votings) =>
              ret'.non_voted =
                  SelectSeq(ret'.all_chat_members,
                            LAMBDA u : u \notin VotersOf(ret'.voting_id))]_vars

\* C12 witness: of the members 3, 2, 1 user 2 has voted, and 3, 1 are
\* returned in that order.
C12_Witness ==
    /\ ret.op = "get_non_voted_users"
    /\ ret.all_chat_members = <<3, 2, 1>>
    /\ ret.non_voted = <<3, 1>>
    /\ VotersOf(ret.voting_id) = {2}

\* C13 (refuted by the code): create_voting for a chat without an ACTIVE
\* voting returns a stored voting, ACTIVE, without votes, with 2 * WEEKS
\* dated options and the option without a date.
C13_CreateReturnsNineOptions ==
    [][(ret = NoCall /\ ret'.op = "create_voting"
            /\ ActiveOf(ret'.chat_id) = {})
        => /\ ret'.ok
           /\ ret'.exc = ""
           /\ ret'.voting_id = Len(votings) + 1
           /\ Len(votings') = Len(votings) + 1
           /\ votings'[ret'.voting_id].status = ACTIVE
           /\ Len(vote_options') = Len(vote_options) + 9
           /\ VotesOfVoting(votes', ret'.voting_id) = <<>>]_vars

\* C14: generate_weekend_dates(start, N) yields 2N dates, strictly
\* increasing, Saturday and Sunday by turns; the first is the first Saturday
\* on or after start (start itself when it is a Saturday), each Sunday is
\* the day after its Saturday and each Saturday 7 days after the one before.
\* From a Monday with N = 2: the next two Saturdays with their Sundays.
C14_WeekendDates ==
    /\ ret.op = "generate_weekend_dates" =>
        LET w == ret.weekends
            N == ret.weeks
        IN /\ Len(w) = 2 * N
           /\ \A i, j \in 1..Len(w) : i < j => w[i] < w[j]
           /\ \A k \in 1..N :
                /\ w[2 * k - 1] % 7 = 5
                /\ w[2 * k] = w[2 * k - 1] + 1
                /\ k > 1 => w[2 * k - 1] = w[2 * k - 3] + 7
           /\ N > 0 =>
                /\ w[1] >= ret.start_date
                /\ \A d \in ret.start_date..(w[1] - 1) : d % 7 # 5
    /\ generate_weekend_dates(0, 2) = <<5, 6, 12, 13>>

\* C14 witness: the dates of three weeks from a start date that is a
\* Saturday, the first of them the start date.
C14_Witness ==
    /\ ret.op = "generate_weekend_dates"
    /\ ret.weeks = 3
    /\ ret.start_date % 7 = 5
    /\ ret.weekends[1] = ret.start_date
    /\ ret.weekends[6] = ret.start_date + 15

---------------------------------------------------------------------------
(* What the claims on the scheduler speak of. *)

\* The step in which the callback awaited for a ping comes back.
PingDone == sched.pc = "send" /\ sched'.last # NoPing /\ sched'.last # sched.last

\* The ping of that step.
PingOf(s) == <<s.schedule_id, Head(s.ping_types)>>

\* The flag of a ping in the table.
IsSent(schedules, schedule_id, ping_type) ==
    schedules[schedule_id].is_sent[ping_type]

\* The ping types of a row or a snapshot that are due at time t and unsent.
DueUnsent(schedule, t) ==
    {k \in 1..3 : schedule.ping_at[k] <= t /\ ~schedule.is_sent[k]}

\* The members of a set of numbers in ascending order.
Ascending(S) == [n \in 1..Cardinality(S) |-> KthOf(S, n)]

\* What the task does after schedule_id in a cycle over the snapshots
\* pending: it awaits the first due ping of the first snapshot with a stored
\* voting, with the later snapshots left to do, or sleeps when there is none.
GoesOn(s, pending) ==
    LET live == {i \in 1..Len(pending) :
                    pending[i].voting_id \in 1..Len(votings)}
    IN IF live = {} THEN s.pc = "sleep"
       ELSE LET first == KthOf(live, 1)
            IN /\ s.pc = "send"
               /\ s.schedule_id = pending[first].schedule_id
               /\ s.voting_id = pending[first].voting_id
               /\ s.ping_types
                      = Ascending(DueUnsent(pending[first], s.current_time))
               /\ s.ping_types # <<>>
               /\ s.pending_schedules
                      = SubSeq(pending, first + 1, Len(pending))

\* C15 (refuted by the code): a sent flag is set only in a step in which
\* send_message sent the message of that ping.
C15_MarkedOnlyIfSent ==
    [][\A s \in 1..Len(ping_schedules), k \in 1..3 :
        (~IsSent(ping_schedules, s, k) /\ IsSent(ping_schedules', s, k)) =>
            /\ sched'.last.schedule_id = s
            /\ sched'.last.ping_type = k
            /\ sched'.last.sent]_vars

C17_FlagsMonotonic ==
    [][/\ Len(ping_schedules') >= Len(ping_schedules)
       /\ \A s \in 1..Len(ping_schedules') :
            IF s > Len(ping_schedules)
            THEN ping_schedules'[s].is_sent = <<FALSE, FALSE, FALSE>>
            ELSE /\ ping_schedules'[s].ping_at = ping_schedules[s].ping_at
                 /\ ping_schedules'[s].voting_id = ping_schedules[s].voting_id
                 /\ \A k \in 1..3 :
                      /\ IsSent(ping_schedules, s, k) => IsSent(ping_schedules', s, k)
                      /\ IsSent(ping_schedules', s, k) # IsSent(ping_schedules, s, k)
                         => /\ PingDone
                            /\ sched'.last.marked
                            /\ <<s, k>> = PingOf(sched)]_vars

\* C17 witness: schedule 1 has its second flag set by the step just taken,
\* its first flag is unset and its third ping is still to come.
C17_Witness ==
    /\ sched.last.marked
    /\ sched.last.schedule_id = 1
    /\ sched.last.ping_type = 2
    /\ ping_schedules[1].is_sent = <<FALSE, TRUE, FALSE>>

\* C18 as stated (refuted): no ping is sent by the scan after it has been
\* sent once.
C18_NeverSentTwice ==
    [][(PingDone /\ sched'.last.sent) => PingOf(sched) \notin log]_vars

\* C18, amended: the scan sends a ping only while its flag is unset in the
\* store, so a ping is never sent again once it is marked; it is sent again
\* only when the flag was not set after it was sent (the UPDATE raised).
C18_NotSentOnceMarked ==
    [][PingDone =>
        /\ ~IsSent(ping_schedules, sched.schedule_id, Head(sched.ping_types))
        /\ (sched'.last.sent /\ PingOf(sched) \in log) =>
               ~IsSent(ping_schedules, sched.schedule_id, Head(sched.ping_types))
        /\ sched'.last.marked =>
               /\ IsSent(ping_schedules', sched.schedule_id, Head(sched.ping_types))
               /\ PingOf(sched) \notin log']_vars

\* C18 witness: in a later cycle the first ping of a schedule, marked, is
\* left out while its second ping, sent before without its flag being set,
\* is awaited again.
C18_Witness ==
    /\ sched.pc = "send"
    /\ sched.ping_types = <<2>>
    /\ IsSent(ping_schedules, sched.schedule_id, 1)
    /\ <<sched.schedule_id, 2>> \in log

\* A ping that the running scan has to send: its fire time has passed, its
\* voting is stored, a callback is set and the loop is running.
ToDeliver(s, k) ==
    /\ s <= Len(ping_schedules)
    /\ sched.is_running
    /\ sched.ping_callback # "None"
    /\ ping_schedules[s].ping_at[k] <= now
    /\ ping_schedules[s].voting_id \in 1..Len(votings)

Stopped == sched.pc = "done" \/ (sched.pc # "created" /\ sched.pc # "off"
                                   /\ ~sched.is_running)

\* A cycle is started: start calls _check_and_send_pings.
CycleStart == StartTask \/ (Wake /\ sched.is_running)

\* C20: whatever raises in a cycle, the task goes to the sleep of the except
\* branch or on with the cycle, and the loop is left only after stop was
\* called; once the task is created and as long as stop is not called,
\* cycles are started again and again.
C20_LoopSurvivesErrors ==
    /\ [][/\ sched'.pc = "done" => ~sched.is_running
          /\ (sched'.error # "" /\ sched'.error # sched.error) =>
                 sched'.pc = "backoff"
          /\ (PingDone /\ ~sched'.last.marked) => sched'.pc # "done"]_vars
    /\ (<>(sched.pc = "created") /\ []~Stopped) => []<><<CycleStart>>_vars

\* C20 witness: get_voting raised after a ping of the cycle was marked; the
\* task is in the sleep of the except branch and the loop is still running.
C20_Witness ==
    /\ sched.is_running
    /\ sched.pc = "backoff"
    /\ sched.error = "get_voting"
    /\ sched.last.marked

\* stop was called while the loop of start was running.
StopRequested ==
    ~sched.is_running /\ sched.pc \in {"send", "sleep", "backoff"}

\* C21: once stop was called while the loop was running, is_running stays
\* False and no cycle is started any more; a cycle under way goes on to its
\* end (the awaited callback comes back, the flag is marked as ever, the
\* next pings are awaited), the sleep that follows is the last one, and
\* after it the loop is left for good.  With the task taking its steps the
\* loop is left in the end.
C21_StopEndsLoop ==
    /\ [][/\ (StopRequested =>
                (/\ ~sched'.is_running
                 /\ sched'.cycle = sched.cycle))
            /\ (StopRequested /\ sched.pc = "send" /\ sched' # sched) =>
                /\ PingDone
                /\ sched'.pc \in {"send", "sleep", "backoff"}
                /\ (sched'.last.marked =>
                       IsSent(ping_schedules', sched.schedule_id,
                              Head(sched.ping_types)))
                /\ (Tail(sched.ping_types) # <<>> =>
                       (/\ sched'.pc = "send"
                        /\ sched'.ping_types = Tail(sched.ping_types)))
            /\ ((StopRequested /\ sched.pc # "send" /\ sched' # sched) =>
                sched'.pc = "done")
            /\ (sched.pc = "done" => sched' = sched)]_vars
    /\ [](StopRequested => <>(sched.pc = "done"))

\* C21 witness: stop was called during a cycle in which a ping has been
\* marked, and the callback is awaited for the next ping.
C21_Witness ==
    /\ StopRequested
    /\ sched.pc = "send"
    /\ sched.last.marked

\* The schedule ids of a list of snapshots, in the order of the list.
IdsOf(pending) == [n \in 1..Len(pending) |-> pending[n].schedule_id]

\* The rows of ping_schedules with a ping due at time t and unsent.
DueRows(schedules, t) ==
    {s \in 1..Len(schedules) : DueUnsent(schedules[s], t) # {}}

\* C22: get_pending_pings(t) returns exactly the schedules with a ping whose
\* fire time is at most t and whose flag is unset, in the order of the rows
\* and with the fields of the rows; when mark_ping_sent has set the flag of
\* a ping, the schedule is not returned at that time any more if that was
\* its only due unsent ping, and is returned with the flag set if not.
C22_PendingIffDueUnsent ==
    /\ [](\A t \in {now - 1, now, now + 1} :
            LET pending == get_pending_pings(t)
            IN /\ IdsOf(pending) = Ascending(DueRows(ping_schedules, t))
               /\ \A n \in 1..Len(pending) :
                     LET row == ping_schedules[pending[n].schedule_id]
                     IN /\ pending[n].voting_id = row.voting_id
                        /\ pending[n].ping_at = row.ping_at
                        /\ pending[n].is_sent = row.is_sent)
    /\ [][(PingDone /\ sched'.last.marked) =>
            LET s == sched.schedule_id
                k == Head(sched.ping_types)
                later == (get_pending_pings(now))'
            IN /\ DueUnsent(ping_schedules[s], now) = {k} =>
                      \A n \in 1..Len(later) : later[n].schedule_id # s
               /\ DueUnsent(ping_schedules[s], now) # {k} =>
                      \E n \in 1..Len(later) : later[n].schedule_id = s
               /\ \A n \in 1..Len(later) :
                      later[n].schedule_id = s => later[n].is_sent[k]]_vars

\* C22 witness: the 24h ping of schedule 1 was its only due unsent ping and
\* has been marked; the scan at the same time returns schedule 2 only.
C22_Witness ==
    /\ sched.last.marked
    /\ sched.last.schedule_id = 1
    /\ sched.last.ping_type = 1
    /\ ping_schedules[1].ping_at[2] > now
    /\ Len(ping_schedules) = 2
    /\ DueUnsent(ping_schedules[2], now) # {}

\* send_manual_ping has just returned.
ManualPingDone == ret.op = "none" /\ ret'.op = "send_manual_ping"

\* C23 as stated (refuted): with an empty list send_manual_ping returns the
\* message that everyone has voted and does not call the callback; with a
\* non-empty list it calls the callback once.
C23_EmptyListAllVoted ==
    ret.op = "send_manual_ping" =>
        IF ret.ping.non_voted_users = <<>>
        THEN ret.ping.msg = MSG_ALL_VOTED /\ ret.ping.callback_calls = 0
        ELSE ret.ping.callback_calls = 1

\* C23, amended: with a callback set, send_manual_ping returns the message
\* that everyone has voted and does not call the callback for an empty
\* list, and calls the callback once for a non-empty list; with no callback
\* set it returns the message that the callback is not set, whatever the
\* list, and calls nothing.
C23_ManualPingCalls ==
    ret.op = "send_manual_ping" =>
        IF ret.ping.callback = "None"
        THEN ret.ping.msg = MSG_NO_CALLBACK /\ ret.ping.callback_calls = 0
        ELSE IF ret.ping.non_voted_users = <<>>
        THEN ret.ping.msg = MSG_ALL_VOTED /\ ret.ping.callback_calls = 0
        ELSE /\ ret.ping.callback_calls = 1
             /\ ret.ping.msg \in {MSG_PING_SENT, MSG_PING_FAILED}

\* C23 witness: a manual ping for an empty list with a callback set.
C23_Witness ==
    /\ ret.op = "send_manual_ping"
    /\ ret.ping.callback # "None"
    /\ ret.ping.non_voted_users = <<>>
    /\ sched.ping_callback = ret.ping.callback

\* C24: send_manual_ping returns one of its four messages and raises
\* nothing; when the callback raises, the message is the one of the failed
\* ping and carries the error; no row of ping_schedules is changed, whether
\* the message was sent or not.
C24_ManualPingNeverRaises ==
    [][ManualPingDone =>
        /\ ret'.exc = ""
        /\ ret'.ping.msg \in {MSG_NO_CALLBACK, MSG_ALL_VOTED, MSG_PING_SENT,
                               MSG_PING_FAILED}
        /\ (/\ ret'.ping.callback = CB_RAISING
            /\ ret'.ping.non_voted_users # <<>>
            /\ ~ret'.ping.sent)
           => /\ ret'.ping.msg = MSG_PING_FAILED
              /\ ret'.ping.error # ""
        /\ ret'.ping.msg = MSG_PING_FAILED => ~ret'.ping.sent
        /\ ping_schedules' = ping_schedules]_vars

\* C24 witness: the callback raised in a manual ping for the voting of a
\* schedule with its 24h flag set and its 48h flag unset.
C24_Witness ==
    /\ ret.op = "send_manual_ping"
    /\ ret.ping.msg = MSG_PING_FAILED
    /\ \E s \in 1..Len(ping_schedules) :
          /\ ping_schedules[s].voting_id = ret.voting_id
          /\ ping_schedules[s].is_sent[1]
          /\ ~ping_schedules[s].is_sent[2]

\* C25 (refuted by the code): a call of the engine that is rejected
\* (create_voting in a chat with an ACTIVE voting; vote_for_option,
\* remove_vote or close_voting on a voting that is missing or closed;
\* vote_for_option on a vote that is there, remove_vote on one that is not)
\* raises nothing and changes nothing: the rejection is the value returned.
C25_RejectionsAreValues ==
    [][EngineCall =>
        LET op == ret'.op
            v == ret'.voting_id
            missing == v \notin 1..Len(votings)
            closed == ~missing /\ votings[v].status # ACTIVE
            voted == VoteRows(votes, ret'.user_id, ret'.option_id, v) # {}
            rejected ==
                \/ op = "create_voting" /\ ActiveOf(ret'.chat_id) # {}
                \/ op \in {"vote_for_option", "remove_vote", "close_voting"}
                   /\ (missing \/ closed)
                \/ op = "vote_for_option" /\ voted
                \/ op = "remove_vote" /\ ~voted
        IN rejected => ret'.exc = "" /\ ~ret'.ok /\ StoreUnchanged]_vars

\* The rows of table vts other than the Vote of (user, option) in a voting,
\* in order.
OtherVotes(vts, user_id, option_id, voting_id) ==
    SelectSeq(vts, LAMBDA r : ~(/\ r.user_id = user_id
                                /\ r.option_id = option_id
                                /\ r.voting_id = voting_id))

\* The options of a voting for which a user has a Vote in table vts.
OptionsVotedBy(vts, user_id, voting_id) ==
    {vts[i].option_id : i \in {j \in 1..Len(vts) :
                                  /\ vts[j].user_id = user_id
                                  /\ vts[j].voting_id = voting_id}}

\* C26: vote_for_option of a user on an option of an ACTIVE voting for
\* which the user has no Vote succeeds whatever other options of the voting
\* the user has voted for, and adds the Vote; a vote_for_option or
\* remove_vote that succeeds leaves the Votes of every other (user, option)
\* as they were.
C26_MultiSelect ==
    [][(EngineCall /\ ret'.op \in {"vote_for_option", "remove_vote"}) =>
        LET u == ret'.user_id
            o == ret'.option_id
            v == ret'.voting_id
        IN /\ (/\ ret'.op = "vote_for_option"
               /\ v \in 1..Len(votings)
               /\ votings[v].status = ACTIVE
               /\ VoteRows(votes, u, o, v) = {})
              => /\ ret'.ok
                 /\ OptionsVotedBy(votes', u, v)
                        = OptionsVotedBy(votes, u, v) \cup {o}
           /\ ret'.ok =>
                 OtherVotes(votes', u, o, v) = OtherVotes(votes, u, o, v)]_vars

\* C26 witness: a user who had a Vote for an option of a voting has voted
\* for another option of it, and holds both; another user has a Vote in
\* the voting too.
C26_Witness ==
    /\ ret.op = "vote_for_option"
    /\ ret.ok
    /\ Cardinality(OptionsVotedBy(votes, ret.user_id, ret.voting_id)) >= 2
    /\ \E u \in Users \ {ret.user_id} :
          OptionsVotedBy(votes, u, ret.voting_id) # {}

\* The schedules of a voting.
SchedulesOf(voting_id) ==
    {s \in 1..Len(ping_schedules) : ping_schedules[s].voting_id = voting_id}

\* C27 (refuted by the code): every stored voting has exactly one schedule,
\* and a schedule has its fire times 24, 48 and 72 hours after one
\* creation time.
C27_OneSchedulePerVoting ==
    /\ \A v \in 1..Len(votings) : Cardinality(SchedulesOf(v)) = 1
    /\ \A s \in 1..Len(ping_schedules) :
          /\ ping_schedules[s].ping_at[2]
                 = ping_schedules[s].ping_at[1] + PING_48H - PING_24H
          /\ ping_schedules[s].ping_at[3]
                 = ping_schedules[s].ping_at[1] + PING_72H - PING_24H

\* The call of vote_for_option of user u returns in this step.
VoteReturns(u) == calls[u].pc \in {"idle", "add_vote"} /\ calls'[u].pc = "done"

\* C28: when calls of vote_for_option of different users overlap, each call
\* takes effect in the one step in which it returns, and there it does to
\* the votes as they are then what the call does on its own: it is
\* accepted and appends its Vote if the voting is stored and ACTIVE and the
\* user has no Vote for the option, and is rejected and writes nothing if
\* not; no other step changes the votes.  So the votes are those of the
\* calls made one after the other in the order of their returns, and every
\* accepted vote is recorded, once.
C28_ConcurrentVotes ==
    /\ [][/\ \A u \in Users :
              VoteReturns(u) =>
                  LET o == calls'[u].option_id
                      v == calls'[u].voting_id
                      accepted == /\ v \in 1..Len(votings)
                                  /\ votings[v].status = ACTIVE
                                  /\ VoteRows(votes, u, o, v) = {}
                  IN /\ calls'[u].ok = accepted
                     /\ votes' = IF accepted
                                 THEN Append(votes, [user_id |-> u,
                                                     option_id |-> o,
                                                     voting_id |-> v])
                                 ELSE votes
                     /\ \A w \in Users \ {u} : calls'[w] = calls[w]
          /\ votes' # votes => \E u \in Users : VoteReturns(u)]_vars
    /\ [](\A u \in Users :
            (calls[u].pc = "done" /\ calls[u].ok) =>
                Cardinality(VoteRows(votes, u, calls[u].option_id,
                                     calls[u].voting_id)) = 1)

\* C28 witness: the two users have voted in the same voting, each call
\* having read the voting before the other wrote, and both votes are there.
C28_Witness ==
    /\ \A u \in Users : calls[u].pc = "done" /\ calls[u].ok
    /\ calls[1].voting_id = calls[2].voting_id
    /\ calls[1].voting.votes = calls[2].voting.votes
    /\ \A u \in Users :
          VoteRows(votes, u, calls[u].option_id, calls[u].voting_id) # {}

\* The rows of votes for an option of a voting whose user is registered.
ResolvedVoteRows(option_id, voting_id) ==
    {i \in OptionVoteRows(option_id, voting_id) : votes[i].user_id \in users}

\* C29: get_detailed_results of a stored voting reports the title of the
\* voting, the size of the registry, the number of distinct voters and, for
\* each option of the voting in option order, the number of its Vote rows,
\* all as get_voting_stats does; the voters of an option are the users of
\* its Vote rows that are registered, in the order the rows were inserted,
\* the others being left out, so that there are at most votes_count of
\* them, and votes_count when every voter is registered.
C29_DetailedMatchesStats ==
    (ret.op = "get_detailed_results" /\ ret.ok) =>
        LET v == ret.voting_id
            own == {o \in 1..Len(vote_options) : vote_options[o].voting_id = v}
            entries == ret.stats.options
        IN /\ ret.stats.title = votings[v].title
           /\ ret.stats.total_users = Cardinality(users)
           /\ ret.stats.voted_users = Cardinality(VotersOf(v))
           /\ Len(entries) = Cardinality(own)
           /\ \A k \in 1..Len(entries) :
                LET e == entries[k]
                    rows == OptionVoteRows(e.option_id, v)
                    resolved == ResolvedVoteRows(e.option_id, v)
                IN /\ e.option_id = KthOf(own, k)
                   /\ e.votes_count = Cardinality(rows)
                   /\ Len(e.voters) = Cardinality(resolved)
                   /\ \A n \in 1..Len(e.voters) :
                          e.voters[n] = votes[KthOf(resolved, n)].user_id
                   /\ Len(e.voters) <= e.votes_count
                   /\ (\A i \in rows : votes[i].user_id \in users)
                          => Len(e.voters) = e.votes_count

\* C29 witness: detailed results with an option that two users voted for,
\* the first of them not registered: its votes_count is 2 and its voters
\* are the second user alone.
C29_Witness ==
    /\ ret.op = "get_detailed_results"
    /\ ret.ok
    /\ \E k \in 1..Len(ret.stats.options) :
          LET e == ret.stats.options[k]
              rows == OptionVoteRows(e.option_id, ret.voting_id)
          IN /\ e.votes_count = 2
             /\ Len(e.voters) = 1
             /\ votes[KthOf(rows, 1)].user_id \notin users
             /\ e.voters[1] = votes[KthOf(rows, 2)].user_id

\* C30 (refuted by the code): the message _get_ping_message builds for a
\* ping type and the users who have not voted is built without an error,
\* mentions each of them (by @username, else by name), and for no such
\* user says that everyone has voted and mentions nobody.
C30_MessageMentionsUsers ==
    ret.op = "_get_ping_message" =>
        /\ ret.exc = ""
        /\ ret.ping.mentions =
               [n \in 1..Len(ret.ping.non_voted_users) |->
                   mention(ret.ping.non_voted_users[n])]
        /\ ret.ping.non_voted_users = <<>> => ret.ping.msg = MSG_ALL_VOTED

\* C31: the callback is awaited in a scan only for pings whose fire time
\* is at most the time the scan took at its start, which is at most the
\* time now, and whose flag is unset; so a message that is sent in a scan
\* is the message of a ping whose fire time has come.
C31_NoPingBeforeFireTime ==
    /\ [](sched.pc = "send" =>
            /\ sched.ping_types # <<>>
            /\ sched.current_time <= now
            /\ \A n \in 1..Len(sched.ping_types) :
                   LET k == sched.ping_types[n]
                   IN /\ ping_schedules[sched.schedule_id].ping_at[k]
                             <= sched.current_time
                      /\ ~IsSent(ping_schedules, sched.schedule_id, k))
    /\ [][(PingDone /\ sched'.last.sent) =>
            /\ sched'.last.schedule_id = sched.schedule_id
            /\ ping_schedules[sched.schedule_id]
                   .ping_at[sched'.last.ping_type] <= now
            /\ ~IsSent(ping_schedules, sched.schedule_id,
                       sched'.last.ping_type)]_vars

\* C31 witness: a scan has sent the 24h ping of a schedule and sleeps; the
\* 48h ping of the schedule, unsent too, is not due and was left alone.
C31_Witness ==
    /\ sched.pc = "sleep"
    /\ sched.last.sent
    /\ sched.last.ping_type = 1
    /\ ping_schedules[sched.last.schedule_id].ping_at[2] > now
    /\ ~IsSent(ping_schedules, sched.last.schedule_id, 2)

\* The voting of schedule s is stored and CLOSED.
ClosedVotingOf(s) ==
    /\ s <= Len(ping_schedules)
    /\ ping_schedules[s].voting_id \in 1..Len(votings)
    /\ votings[ping_schedules[s].voting_id].status = CLOSED

\* C32: the scan does not look at the status of a voting.  A cycle that
\* reads the store without an error awaits the callback for the first due
\* unsent ping of the first listed schedule whose voting is stored, CLOSED
\* or not; a ping of a CLOSED voting whose callback comes back without
\* raising is marked when the UPDATE goes through; and under the fairness
\* of SchedCloseLiveSpec every due ping of a CLOSED voting is marked sent
\* in the end, unless the loop is stopped.
C32_ClosedStillPinged ==
    /\ [][(/\ sched'.cycle # sched.cycle
           /\ sched.ping_callback # "None"
           /\ sched'.error = "") =>
              GoesOn(sched', get_pending_pings(now))]_vars
    /\ [][(PingDone /\ ClosedVotingOf(sched.schedule_id)) =>
            (sched'.last.marked =>
                IsSent(ping_schedules', sched.schedule_id,
                       sched'.last.ping_type))]_vars
    /\ \A s \in 1..MaxSchedules, k \in PingTypes :
          []((ToDeliver(s, k) /\ ClosedVotingOf(s)) =>
                <>(\/ s <= Len(ping_schedules) /\ IsSent(ping_schedules, s, k)
                   \/ ~sched.is_running))

\* C32 witness: the scan read a voting as CLOSED, sent and marked a ping
\* of its schedule and awaits the callback for the next one.
C32_Witness ==
    /\ sched.pc = "send"
    /\ sched.status = CLOSED
    /\ sched.last.schedule_id = sched.schedule_id
    /\ sched.last.sent
    /\ sched.last.marked

\* The step of handler h from query.answer() to its next await.
Handled(h) == presses[h].pc = "answer" /\ presses'[h].pc = "reply"

\* C33: whatever handlers are under way, the step of a handler after
\* query.answer() calls remove_vote when the user has a Vote for the option
\* at that time and vote_for_option when not, and the engine never answers
\* with "already voted" or "not voted"; for an ACTIVE voting the call
\* succeeds, the user has the Vote afterwards exactly when the user had
\* none before, and the Votes of every other (user, option) stay; for a
\* CLOSED voting the press is rejected as closed and no Vote changes.
C33_ToggleRule ==
    [][\A h \in Handlers :
        Handled(h) =>
            LET u == presses[h].user_id
                o == presses[h].option_id
                v == presses[h].voting_id
                had == VoteRows(votes, u, o, v) # {}
            IN /\ presses'[h].action = IF had THEN "unvote" ELSE "vote"
               /\ presses'[h].msg \notin {MSG_ALREADY_VOTED, MSG_NOT_VOTED,
                                           MSG_UNVOTE_ERR}
               /\ (votings[v].status = ACTIVE =>
                      (/\ presses'[h].ok
                       /\ (VoteRows(votes', u, o, v) # {}) = ~had
                       /\ Cardinality(VoteRows(votes', u, o, v)) <= 1
                       /\ OtherVotes(votes', u, o, v)
                              = OtherVotes(votes, u, o, v)))
               /\ (votings[v].status # ACTIVE =>
                      (/\ ~presses'[h].ok
                       /\ presses'[h].msg = MSG_CLOSED
                       /\ votes' = votes))]_vars

\* C33 witness: two presses of one user on one option overlap; the first
\* handler voted, the second one took the Vote back, and both still await
\* their replies.
C33_Witness ==
    /\ presses[1].pc = "reply" /\ presses[2].pc = "reply"
    /\ presses[1].user_id = presses[2].user_id
    /\ presses[1].option_id = presses[2].option_id
    /\ presses[1].action = "vote" /\ presses[1].ok
    /\ presses[2].action = "unvote" /\ presses[2].ok
    /\ votes = <<>>

\* All that is stored of voting w: its row, its options, its votes and
\* its schedules.
PollOf(w) ==
    [voting |-> votings[w],
     options |-> voting_options(w),
     votes |-> VotesOfVoting(votes, w),
     schedules |-> {s \in 1..Len(ping_schedules) :
                       ping_schedules[s].voting_id = w},
     flags |-> [s \in {x \in 1..Len(ping_schedules) :
                          ping_schedules[x].voting_id = w} |->
                   ping_schedules[s]]]

\* C34: create_voting, vote_for_option, remove_vote and close_voting leave
\* what is stored of every voting other than the one they are called for
\* as it was; and create_voting for a chat without an ACTIVE voting is not
\* rejected with the conflict error, whatever votings other chats hold.
C34_ScopedPerPoll ==
    [][(EngineCall /\ ret'.op \in {"create_voting", "vote_for_option",
                                     "remove_vote", "close_voting"}) =>
          /\ \A w \in 1..Len(votings) :
                 w # ret'.voting_id => (PollOf(w))' = PollOf(w)
          /\ (ret'.op = "create_voting" /\ ActiveOf(ret'.chat_id) = {}) =>
                 ret'.exc # "ValueError"]_vars

\* C34 witness: create_voting was called for a chat without an ACTIVE
\* voting while the other chat holds an ACTIVE voting with a Vote and a
\* schedule.
C34_Witness ==
    /\ ret.op = "create_voting"
    /\ ActiveOf(ret.chat_id) = {}
    /\ \E w \in 1..Len(votings) :
           /\ votings[w].chat_id # ret.chat_id
           /\ votings[w].status = ACTIVE
           /\ PollOf(w).votes # <<>>
           /\ PollOf(w).schedules # {}

\* The sum of votes_count over the entries of a statistics result.
RECURSIVE SumOfCounts(_)
SumOfCounts(entries) ==
    IF entries = <<>> THEN 0
    ELSE Head(entries).votes_count + SumOfCounts(Tail(entries))

\* C35 (refuted by the code): every stored Vote is for an option of its
\* own voting, and in every statistics result the votes_count of the
\* options add up to the number of Votes of the voting, voted_users being
\* at most that sum.
C35_VotesOnOwnOptions ==
    /\ \A n \in 1..Len(votes) :
           /\ votes[n].option_id \in 1..Len(vote_options)
           /\ vote_options[votes[n].option_id].voting_id = votes[n].voting_id
    /\ (ret.op = "get_voting_stats" /\ ret.ok) =>
           /\ SumOfCounts(ret.stats.options)
                  = Len(VotesOfVoting(votes, ret.voting_id))
           /\ ret.stats.voted_users <= SumOfCounts(ret.stats.options)

\* C36 (refuted by the code): every user who holds a Vote is a row of
\* users, and in every statistics result voted_users is at most
\* total_users (after the one Vote of one user: 1 of 1).
C36_VotersAreRegistered ==
    /\ \A n \in 1..Len(votes) : votes[n].user_id \in users
    /\ (ret.op = "get_voting_stats" /\ ret.ok) =>
           ret.stats.voted_users <= ret.stats.total_users

\* C37 (refuted by the code): create_voting for a chat whose voting has
\* been closed, and which has no ACTIVE voting, succeeds: it stores a new
\* ACTIVE voting of the chat under a new id with no Votes, and the votings
\* stored before stay as they were, the CLOSED one with its Votes.
C37_ClosureFreesChat ==
    [][(/\ ret = NoCall
        /\ ret'.op = "create_voting"
        /\ ActiveOf(ret'.chat_id) = {}
        /\ \E w \in 1..Len(votings) :
               /\ votings[w].chat_id = ret'.chat_id
               /\ votings[w].status = CLOSED) =>
          /\ ret'.ok
          /\ ret'.exc = ""
          /\ ret'.voting_id = Len(votings) + 1
          /\ Len(votings') = Len(votings) + 1
          /\ votings'[Len(votings')].chat_id = ret'.chat_id
          /\ votings'[Len(votings')].status = ACTIVE
          /\ VotesOfVoting(votes', Len(votings')) = <<>>
          /\ \A w \in 1..Len(votings) : (PollOf(w))' = PollOf(w)]_vars

\* C38: when the /close commands of two handlers have read the same ACTIVE
\* voting and both have called close_voting after their awaits, exactly
\* one of them got results and the other got None; the call made after the
\* await gets results exactly when the voting is still ACTIVE, and then it
\* alone sets the status to CLOSED, the other call leaving votings as they
\* are; a CLOSED voting stays CLOSED.
C38_OneCloserWins ==
    /\ []((/\ presses[1].pc = "reply" /\ presses[2].pc = "reply"
           /\ presses[1].action = "close" /\ presses[2].action = "close"
           /\ presses[1].voting_id # 0
           /\ presses[1].voting_id = presses[2].voting_id) =>
              presses[1].ok # presses[2].ok)
    /\ [][\A h \in Handlers :
            (presses[h].pc = "unpin" /\ presses'[h].pc = "reply") =>
                LET v == presses[h].voting_id
                IN /\ presses'[h].ok = (votings[v].status = ACTIVE)
                   /\ votings'[v].status = CLOSED
                   /\ ~presses'[h].ok => votings' = votings]_vars
    /\ [][\A v \in 1..Len(votings) :
            votings[v].status = CLOSED => votings'[v].status = CLOSED]_vars

\* C38 witness: both commands read voting 1, awaited the unpin and called
\* close_voting; the first got the results, the second got None.
C38_Witness ==
    /\ presses[1].pc = "reply" /\ presses[2].pc = "reply"
    /\ presses[1].action = "close" /\ presses[2].action = "close"
    /\ presses[1].voting_id = 1 /\ presses[2].voting_id = 1
    /\ presses[1].ok
    /\ presses[2].msg = MSG_CLOSE_ERR

\* The flags of a ping_schedules row are set in the order of the fire
\* times.
InOrder(row) ==
    /\ row.is_sent[3] => row.is_sent[2]
    /\ row.is_sent[2] => row.is_sent[1]

\* C39 as stated (refuted): in every reachable state the flags of every
\* schedule are set in the order of the fire times.
C39_FlagsInOrder ==
    \A s \in 1..Len(ping_schedules) : InOrder(ping_schedules[s])

\* C39, amended: within a cycle the due unsent pings of a schedule are
\* attempted in the order 24h, 48h, 72h, one after the other; and a ping
\* that is attempted leaves the flags of its schedule in order when they
\* were in order and the attempt before it in the cycle, if it was for the
\* same schedule, was marked.  (After a failed attempt the next ping of
\* the schedule is attempted and marked all the same.)
C39_InOrderUnlessFailed ==
    /\ [](sched.pc = "send" =>
            \A n \in 1..(Len(sched.ping_types) - 1) :
                sched.ping_types[n] < sched.ping_types[n + 1])
    /\ [][(PingDone /\ Tail(sched.ping_types) # <<>>) =>
            /\ sched'.pc = "send"
            /\ sched'.schedule_id = sched.schedule_id
            /\ sched'.ping_types = Tail(sched.ping_types)]_vars
    /\ [][(/\ PingDone
           /\ InOrder(ping_schedules[sched.schedule_id])
           /\ \/ sched.last.schedule_id # sched.schedule_id
              \/ sched.last.marked) =>
              InOrder(ping_schedules'[sched.schedule_id])]_vars

\* C39 witness: in one scan the 48h ping of a schedule was marked after
\* its 24h ping, and the callback is awaited for its 72h ping.
C39_Witness ==
    /\ sched.pc = "send"
    /\ sched.ping_types = <<3>>
    /\ sched.last.schedule_id = sched.schedule_id
    /\ sched.last.ping_type = 2
    /\ sched.last.marked
    /\ ping_schedules[sched.schedule_id].is_sent = <<TRUE, TRUE, FALSE>>

\* C40 (refuted by the code): when stop was called after the task of
\* start was created and before its first step, the loop of start is left
\* in the end, the task taking its steps whenever it can.
C40_StopNeverLost == [](sched.early_stop => <>(sched.pc = "done"))

=============================================================================
